---- MODULE Spec2Model ----
(***************************************************************************)
(* Model of the chess rules engine of firebase-chess-online (utils/chess)  *)
(* and of the game document it is played on (services/GameService,         *)
(* pages/Game, components/ChessBoard).                                     *)
(*                                                                         *)
(* A JavaScript string is a sequence of character codes, so a position     *)
(* such as "e4" is <<101, 52>>.  A piece is a record {type, color} that    *)
(* may carry a hasMoved field.  JavaScript's null object is the record     *)
(* null.  A board is the code's flat array: a sequence of 64 cells         *)
(* {position, piece}.  The arrays of destinations the generators return    *)
(* are modelled as sets (the code only ever tests membership).             *)
(***************************************************************************)
EXTENDS Integers, Sequences, FiniteSets, TLC

VARIABLES
  game,      \* the stored game document (GameService.createGame)
  outcome,   \* handleMove's local `outcome` for the last submitted move
  sess,      \* per browser session: snapshot, pending request, position in makeChessMove
  call,      \* arguments of the engine function under study
  ret        \* what that call returned

vars == <<game, outcome, sess, call, ret>>

null == [null |-> TRUE]

Colors == {"white", "black"}

----------------------------------------------------------------------------
(* utils.js *)

isValidSquare(row, col) == row >= 0 /\ row < 8 /\ col >= 0 /\ col < 8

\* JavaScript numbers, where NaN has to be told apart: parseInt of a
\* non-digit is NaN, NaN absorbs arithmetic and NaN === NaN is false.
Num(v) == [nan |-> FALSE, v |-> v]

NaN == [nan |-> TRUE, v |-> 0]

parseInt(ch) == IF ch \in 48..57 THEN Num(ch - 48) ELSE NaN

NumAdd(a, b) == IF a.nan \/ b.nan THEN NaN ELSE Num(a.v + b.v)

NumSub(a, b) == IF a.nan \/ b.nan THEN NaN ELSE Num(a.v - b.v)

\* JavaScript's % keeps the sign of the dividend.
NumMod(a, m) ==
  IF a.nan THEN NaN
  ELSE IF a.v >= 0 THEN Num(a.v % m) ELSE Num(0 - ((0 - a.v) % m))

StrictEquals(a, b) == ~a.nan /\ ~b.nan /\ a.v = b.v

Abs(x) == IF x < 0 THEN 0 - x ELSE x

\* indicesToPosition that counts the ranks from the top, as it counts the rows.
indicesToPositionRankFromTop(row, col) ==
  LET file == 97 + col
      rank == 1 + row
  IN  <<file, 48 + rank>>

positionToIndices(position) ==
  LET col == position[1] - 97
      row == NumSub(Num(8), parseInt(position[2])).v
  IN  <<row, col>>

indicesToPosition(row, col) ==
  LET file == 97 + col
      rank == 8 - row
  IN  <<file, 48 + rank>>

----------------------------------------------------------------------------
(* board.js *)

\* boardCell with the king on the queen's file and the queen on the king's.
boardCellKingOnD(row, col) ==
  LET position == indicesToPosition(row, col)
      color == IF row = 0 THEN "black" ELSE "white"
      piece ==
        IF row = 0 \/ row = 7
        THEN IF col = 0 \/ col = 7
             THEN [type |-> "rook", color |-> color, hasMoved |-> FALSE]
             ELSE IF col = 1 \/ col = 6 THEN [type |-> "knight", color |-> color]
             ELSE IF col = 2 \/ col = 5 THEN [type |-> "bishop", color |-> color]
             ELSE IF col = 3 THEN [type |-> "king", color |-> color, hasMoved |-> FALSE]
             ELSE [type |-> "queen", color |-> color]
        ELSE IF row = 1 THEN [type |-> "pawn", color |-> "black"]
        ELSE IF row = 6 THEN [type |-> "pawn", color |-> "white"]
        ELSE null
  IN  [position |-> position, piece |-> piece]

boardCell(row, col) ==
  LET position == indicesToPosition(row, col)
      color == IF row = 0 THEN "black" ELSE "white"
      piece ==
        IF row = 0 \/ row = 7
        THEN IF col = 0 \/ col = 7
             THEN [type |-> "rook", color |-> color, hasMoved |-> FALSE]
             ELSE IF col = 1 \/ col = 6 THEN [type |-> "knight", color |-> color]
             ELSE IF col = 2 \/ col = 5 THEN [type |-> "bishop", color |-> color]
             ELSE IF col = 3 THEN [type |-> "queen", color |-> color]
             ELSE [type |-> "king", color |-> color, hasMoved |-> FALSE]
        ELSE IF row = 1 THEN [type |-> "pawn", color |-> "black"]
        ELSE IF row = 6 THEN [type |-> "pawn", color |-> "white"]
        ELSE null
  IN  [position |-> position, piece |-> piece]

initialBoardSetup == [i \in 1..64 |-> boardCell((i - 1) \div 8, (i - 1) % 8)]

\* Array.prototype.find: the first cell with that position.
getPieceAtPosition(board, position) ==
  LET hits == {i \in DOMAIN board : board[i].position = position}
  IN  IF hits = {} THEN null
      ELSE board[CHOOSE i \in hits : \A j \in hits : i <= j].piece

\* setPieceAtPosition that pushes a new cell instead of replacing the old one.
pushPieceAtPosition(board, position, piece) ==
  Append(board, [position |-> position, piece |-> piece])

setPieceAtPosition(board, position, piece) ==
  [i \in DOMAIN board |->
     IF board[i].position = position
     THEN [board[i] EXCEPT !.piece = piece]
     ELSE board[i]]

findKingPosition(board, color) ==
  LET hits == {i \in DOMAIN board :
                 /\ board[i].piece # null
                 /\ board[i].piece.type = "king"
                 /\ board[i].piece.color = color}
  IN  IF hits = {} THEN null
      ELSE board[CHOOSE i \in hits : \A j \in hits : i <= j].position

\* The spread without the flag.
withoutHasMoved(piece) == piece

\* {...piece, hasMoved: true}
withHasMoved(piece) ==
  [f \in DOMAIN piece \cup {"hasMoved"} |->
     IF f = "hasMoved" THEN TRUE ELSE piece[f]]

\* !piece.hasMoved: an absent field is undefined, which is falsy.
notHasMoved(piece) == "hasMoved" \notin DOMAIN piece \/ ~piece.hasMoved

opponent(color) == IF color = "white" THEN "black" ELSE "white"

----------------------------------------------------------------------------
(* moves/*.js *)

RECURSIVE slide(_, _, _, _, _, _)

\* The loop that also takes the square of a piece of its own colour.
slideOntoOwn(board, currentRow, currentCol, dRow, dCol, color) ==
  IF ~isValidSquare(currentRow, currentCol) THEN {}
  ELSE LET pos == indicesToPosition(currentRow, currentCol)
       IN  IF getPieceAtPosition(board, pos) = null
           THEN {pos} \cup slide(board, currentRow + dRow, currentCol + dCol, dRow, dCol, color)
           ELSE {pos}

\* The while loop of calculateRookMoves / calculateBishopMoves for one direction.
slide(board, currentRow, currentCol, dRow, dCol, color) ==
  IF ~isValidSquare(currentRow, currentCol) THEN {}
  ELSE LET pos == indicesToPosition(currentRow, currentCol)
           piece == getPieceAtPosition(board, pos)
       IN  IF piece = null
           THEN {pos} \cup slide(board, currentRow + dRow, currentCol + dCol, dRow, dCol, color)
           ELSE IF piece.color # color THEN {pos} ELSE {}

calculateRookMoves(board, row, col, color) ==
  UNION {slide(board, row + d[1], col + d[2], d[1], d[2], color) :
           d \in {<<0, 1>>, <<0, -1>>, <<1, 0>>, <<-1, 0>>}}

calculateBishopMoves(board, row, col, color) ==
  UNION {slide(board, row + d[1], col + d[2], d[1], d[2], color) :
           d \in {<<1, 1>>, <<1, -1>>, <<-1, 1>>, <<-1, -1>>}}

calculateQueenMoves(board, row, col, color) ==
  calculateRookMoves(board, row, col, color) \cup calculateBishopMoves(board, row, col, color)

stepMoves(board, row, col, color, offsets) ==
  {indicesToPosition(row + d[1], col + d[2]) :
     d \in {o \in offsets :
              /\ isValidSquare(row + o[1], col + o[2])
              /\ LET piece == getPieceAtPosition(board, indicesToPosition(row + o[1], col + o[2]))
                 IN  piece = null \/ piece.color # color}}

\* calculateKnightMoves without the test for a piece of its own colour.
calculateKnightMovesOntoOwn(board, row, col, color) ==
  {indicesToPosition(row + d[1], col + d[2]) :
     d \in {o \in {<<-2, -1>>, <<-2, 1>>, <<-1, -2>>, <<-1, 2>>,
                   <<1, -2>>, <<1, 2>>, <<2, -1>>, <<2, 1>>} :
              isValidSquare(row + o[1], col + o[2])}}

calculateKnightMoves(board, row, col, color) ==
  stepMoves(board, row, col, color,
            {<<-2, -1>>, <<-2, 1>>, <<-1, -2>>, <<-1, 2>>,
             <<1, -2>>, <<1, 2>>, <<2, -1>>, <<2, 1>>})

\* pawnEnPassant without the test of the file the last pawn landed on.
pawnEnPassantAnyFile(board, row, color, lastMove, captureCol) ==
  /\ lastMove # null
  /\ row = (IF color = "white" THEN 3 ELSE 4)
  /\ LET lastMovePiece == getPieceAtPosition(board, lastMove.to)
         lastFrom == positionToIndices(lastMove.from)
         lastTo == positionToIndices(lastMove.to)
     IN  /\ lastMovePiece # null
         /\ lastMovePiece.type = "pawn"
         /\ lastMovePiece.color # color
         /\ Abs(lastFrom[1] - lastTo[1]) = 2
         /\ lastTo[1] = row

\* The en-passant test inside the diagonal loop of calculatePawnMoves.
pawnEnPassant(board, row, color, lastMove, captureCol) ==
  /\ lastMove # null
  /\ row = (IF color = "white" THEN 3 ELSE 4)
  /\ LET lastMovePiece == getPieceAtPosition(board, lastMove.to)
         lastFrom == positionToIndices(lastMove.from)
         lastTo == positionToIndices(lastMove.to)
     IN  /\ lastMovePiece # null
         /\ lastMovePiece.type = "pawn"
         /\ lastMovePiece.color # color
         /\ Abs(lastFrom[1] - lastTo[1]) = 2
         /\ lastTo[1] = row
         /\ lastTo[2] = captureCol

\* calculatePawnMoves without the early return of the attack check.
calculatePawnMovesForwardToo(board, row, col, color, lastMove, forAttackCheck) ==
  LET direction == IF color = "white" THEN -1 ELSE 1
      startRow == IF color = "white" THEN 6 ELSE 1
      captureRow == row + direction
      diagonals ==
        {indicesToPosition(captureRow, col + offset) :
           offset \in {o \in {-1, 1} :
              /\ isValidSquare(captureRow, col + o)
              /\ \/ forAttackCheck
                 \/ LET targetPiece == getPieceAtPosition(board, indicesToPosition(captureRow, col + o))
                    IN  targetPiece # null /\ targetPiece.color # color
                 \/ pawnEnPassant(board, row, color, lastMove, col + o)}}
      forwardRow == row + direction
      forwardPos == indicesToPosition(forwardRow, col)
      twoForwardPos == indicesToPosition(row + 2 * direction, col)
      forward ==
        IF isValidSquare(forwardRow, col) /\ getPieceAtPosition(board, forwardPos) = null
        THEN {forwardPos} \cup
             (IF row = startRow /\ getPieceAtPosition(board, twoForwardPos) = null
              THEN {twoForwardPos} ELSE {})
        ELSE {}
  IN  diagonals \cup forward

calculatePawnMoves(board, row, col, color, lastMove, forAttackCheck) ==
  LET direction == IF color = "white" THEN -1 ELSE 1
      startRow == IF color = "white" THEN 6 ELSE 1
      captureRow == row + direction
      diagonals ==
        {indicesToPosition(captureRow, col + offset) :
           offset \in {o \in {-1, 1} :
              /\ isValidSquare(captureRow, col + o)
              /\ \/ forAttackCheck
                 \/ LET targetPiece == getPieceAtPosition(board, indicesToPosition(captureRow, col + o))
                    IN  targetPiece # null /\ targetPiece.color # color
                 \/ pawnEnPassant(board, row, color, lastMove, col + o)}}
      forwardRow == row + direction
      forwardPos == indicesToPosition(forwardRow, col)
      twoForwardPos == indicesToPosition(row + 2 * direction, col)
      forward ==
        IF isValidSquare(forwardRow, col) /\ getPieceAtPosition(board, forwardPos) = null
        THEN {forwardPos} \cup
             (IF row = startRow /\ getPieceAtPosition(board, twoForwardPos) = null
              THEN {twoForwardPos} ELSE {})
        ELSE {}
  IN  IF forAttackCheck THEN diagonals ELSE diagonals \cup forward

RECURSIVE calculatePieceMoves(_, _, _, _, _)

(* rules/check.js *)
isPositionUnderAttack(board, position, byColor) ==
  \E i \in DOMAIN board :
     /\ board[i].piece # null
     /\ board[i].piece.color = byColor
     /\ position \in calculatePieceMoves(board, board[i].position, board[i].piece, null, TRUE)

isInCheck(board, color) ==
  LET kingPosition == findKingPosition(board, color)
  IN  IF kingPosition = null THEN FALSE
      ELSE isPositionUnderAttack(board, kingPosition, opponent(color))

\* kingCastleSide without the test of the square the king passes through.
kingCastleSideUnchecked(board, row, col, color, rookCol, step) ==
  LET rook == getPieceAtPosition(board, indicesToPosition(row, rookCol))
      between == {c \in 0..7 : IF step = 1 THEN c > col /\ c < 7 ELSE c < col /\ c > 0}
      destinationPos == indicesToPosition(row, col + 2 * step)
  IN  IF /\ rook # null
         /\ rook.type = "rook"
         /\ notHasMoved(rook)
         /\ rook.color = color
         /\ \A c \in between : getPieceAtPosition(board, indicesToPosition(row, c)) = null
         /\ ~isPositionUnderAttack(board, destinationPos, opponent(color))
      THEN {destinationPos}
      ELSE {}

\* One side of the castling block of calculateKingMoves: rookCol is 7 or 0,
\* step is +1 (kingside) or -1 (queenside).
kingCastleSide(board, row, col, color, rookCol, step) ==
  LET rook == getPieceAtPosition(board, indicesToPosition(row, rookCol))
      between == {c \in 0..7 : IF step = 1 THEN c > col /\ c < 7 ELSE c < col /\ c > 0}
      passThroughPos == indicesToPosition(row, col + step)
      destinationPos == indicesToPosition(row, col + 2 * step)
  IN  IF /\ rook # null
         /\ rook.type = "rook"
         /\ notHasMoved(rook)
         /\ rook.color = color
         /\ \A c \in between : getPieceAtPosition(board, indicesToPosition(row, c)) = null
         /\ ~isPositionUnderAttack(board, passThroughPos, opponent(color))
         /\ ~isPositionUnderAttack(board, destinationPos, opponent(color))
      THEN {destinationPos}
      ELSE {}

calculateKingMoves(board, row, col, color, forAttackCheck) ==
  LET adjacent ==
        stepMoves(board, row, col, color,
                  {<<-1, -1>>, <<-1, 0>>, <<-1, 1>>, <<0, -1>>,
                   <<0, 1>>, <<1, -1>>, <<1, 0>>, <<1, 1>>})
      king == getPieceAtPosition(board, indicesToPosition(row, col))
  IN  IF ~forAttackCheck /\ king # null /\ notHasMoved(king) /\ ~isInCheck(board, color)
      THEN adjacent \cup kingCastleSide(board, row, col, color, 7, 1)
                    \cup kingCastleSide(board, row, col, color, 0, -1)
      ELSE adjacent

calculatePieceMoves(board, position, piece, lastMove, forAttackCheck) ==
  LET rc == positionToIndices(position)
      row == rc[1]
      col == rc[2]
  IN  CASE piece.type = "pawn" -> calculatePawnMoves(board, row, col, piece.color, lastMove, forAttackCheck)
        [] piece.type = "rook" -> calculateRookMoves(board, row, col, piece.color)
        [] piece.type = "knight" -> calculateKnightMoves(board, row, col, piece.color)
        [] piece.type = "bishop" -> calculateBishopMoves(board, row, col, piece.color)
        [] piece.type = "queen" -> calculateQueenMoves(board, row, col, piece.color)
        [] piece.type = "king" -> calculateKingMoves(board, row, col, piece.color, forAttackCheck)
        [] OTHER -> {}

wouldMoveResultInCheck(board, from, to, color) ==
  LET piece == getPieceAtPosition(board, from)
  IN  IF piece = null THEN TRUE
      ELSE LET newBoard == setPieceAtPosition(board, from, null)
               finalBoard == setPieceAtPosition(newBoard, to, withHasMoved(piece))
               kingPosition == findKingPosition(finalBoard, color)
           IN  IF kingPosition = null THEN TRUE
               ELSE isPositionUnderAttack(finalBoard, kingPosition, opponent(color))

hasLegalMoves(board, color, lastMove) ==
  \E i \in DOMAIN board :
     /\ board[i].piece # null
     /\ board[i].piece.color = color
     /\ \E move \in calculatePieceMoves(board, board[i].position, board[i].piece, lastMove, FALSE) :
          ~wouldMoveResultInCheck(board, board[i].position, move, color)

\* ChessBoard.calculateValidMoves: the destinations offered for a selected piece.
calculateValidMoves(board, position, piece, lastMove) ==
  {move \in calculatePieceMoves(board, position, piece, lastMove, FALSE) :
     ~wouldMoveResultInCheck(board, position, move, piece.color)}

----------------------------------------------------------------------------
(* rules/castling.js *)

canCastle(board, kingPosition, direction) ==
  LET rc == positionToIndices(kingPosition)
      kingRow == rc[1]
      kingCol == rc[2]
      king == getPieceAtPosition(board, kingPosition)
  IN  IF king = null \/ king.type # "king" \/ ~notHasMoved(king) THEN FALSE
      ELSE IF isInCheck(board, king.color) THEN FALSE
      ELSE LET color == king.color
               rookCol == IF direction = "kingside" THEN 7 ELSE 0
               rook == getPieceAtPosition(board, indicesToPosition(kingRow, rookCol))
               step == IF direction = "kingside" THEN 1 ELSE -1
               limit == IF direction = "kingside" THEN rookCol - 1 ELSE rookCol + 1
               between == {c \in 0..7 : IF direction = "kingside"
                                          THEN c >= kingCol + step /\ c <= limit
                                          ELSE c <= kingCol + step /\ c >= limit}
           IN  /\ rook # null
               /\ rook.type = "rook"
               /\ rook.color = color
               /\ notHasMoved(rook)
               /\ \A c \in between : getPieceAtPosition(board, indicesToPosition(kingRow, c)) = null
               /\ \A s \in 1..2 :
                    ~isPositionUnderAttack(board,
                        indicesToPosition(kingRow, kingCol + (IF direction = "kingside" THEN s ELSE 0 - s)),
                        opponent(color))

\* {...rook, hasMoved: true}, where spreading null adds nothing.
spreadWithHasMoved(piece) == IF piece = null THEN [hasMoved |-> TRUE] ELSE withHasMoved(piece)

\* applyCastling with the rook put on the far side of the king.
applyCastlingRookInCorner(board, kingPosition, direction) ==
  LET rc == positionToIndices(kingPosition)
      kingRow == rc[1]
      kingCol == rc[2]
      king == getPieceAtPosition(board, kingPosition)
      rookCol == IF direction = "kingside" THEN 7 ELSE 0
      rookPosition == indicesToPosition(kingRow, rookCol)
      rook == getPieceAtPosition(board, rookPosition)
      newKingCol == kingCol + (IF direction = "kingside" THEN 2 ELSE -2)
      newKingPosition == indicesToPosition(kingRow, newKingCol)
      newRookCol == IF direction = "kingside" THEN newKingCol + 1 ELSE newKingCol - 1
      newRookPosition == indicesToPosition(kingRow, newRookCol)
      b1 == setPieceAtPosition(board, kingPosition, null)
      b2 == setPieceAtPosition(b1, rookPosition, null)
      b3 == setPieceAtPosition(b2, newKingPosition, withHasMoved(king))
  IN  IF king = null THEN board
      ELSE setPieceAtPosition(b3, newRookPosition, spreadWithHasMoved(rook))

applyCastling(board, kingPosition, direction) ==
  LET rc == positionToIndices(kingPosition)
      kingRow == rc[1]
      kingCol == rc[2]
      king == getPieceAtPosition(board, kingPosition)
      rookCol == IF direction = "kingside" THEN 7 ELSE 0
      rookPosition == indicesToPosition(kingRow, rookCol)
      rook == getPieceAtPosition(board, rookPosition)
      newKingCol == kingCol + (IF direction = "kingside" THEN 2 ELSE -2)
      newKingPosition == indicesToPosition(kingRow, newKingCol)
      newRookCol == IF direction = "kingside" THEN newKingCol - 1 ELSE newKingCol + 1
      newRookPosition == indicesToPosition(kingRow, newRookCol)
      b1 == setPieceAtPosition(board, kingPosition, null)
      b2 == setPieceAtPosition(b1, rookPosition, null)
      b3 == setPieceAtPosition(b2, newKingPosition, withHasMoved(king))
  IN  IF king = null THEN board
      ELSE setPieceAtPosition(b3, newRookPosition, spreadWithHasMoved(rook))

isCastlingMove(from, to, piece) ==
  IF piece = null \/ piece.type # "king" THEN null
  ELSE LET f == positionToIndices(from)
           t == positionToIndices(to)
       IN  IF f[1] = t[1] /\ Abs(f[2] - t[2]) = 2
           THEN [direction |-> IF t[2] > f[2] THEN "kingside" ELSE "queenside"]
           ELSE null

(* rules/enPassant.js *)

getEnPassantMoves(board, position, lastMove) ==
  IF lastMove = null THEN {}
  ELSE LET piece == getPieceAtPosition(board, position)
       IN  IF piece = null \/ piece.type # "pawn" THEN {}
           ELSE LET rc == positionToIndices(position)
                    row == rc[1]
                    col == rc[2]
                    color == piece.color
                    direction == IF color = "white" THEN -1 ELSE 1
                    enPassantRow == IF color = "white" THEN 3 ELSE 4
                    lastMovePiece == getPieceAtPosition(board, lastMove.to)
                    lastFrom == positionToIndices(lastMove.from)
                    lastTo == positionToIndices(lastMove.to)
                IN  IF row # enPassantRow THEN {}
                    ELSE IF /\ lastMovePiece # null
                            /\ lastMovePiece.type = "pawn"
                            /\ lastMovePiece.color # color
                            /\ Abs(lastFrom[1] - lastTo[1]) = 2
                            /\ lastTo[1] = row
                            /\ Abs(lastTo[2] - col) = 1
                         THEN {indicesToPosition(row + direction, lastTo[2])}
                         ELSE {}

isEnPassantMove(board, from, to, lastMove) ==
  IF lastMove = null THEN FALSE
  ELSE LET piece == getPieceAtPosition(board, from)
       IN  IF piece = null \/ piece.type # "pawn" THEN FALSE
           ELSE /\ Abs(positionToIndices(from)[2] - positionToIndices(to)[2]) = 1
                /\ getPieceAtPosition(board, to) = null

\* applyEnPassant that leaves the passed pawn on the board.
applyEnPassantKeepsPawn(board, from, to, lastMove) ==
  LET piece == getPieceAtPosition(board, from)
      b1 == setPieceAtPosition(board, from, null)
  IN  IF piece = null THEN board ELSE setPieceAtPosition(b1, to, piece)

applyEnPassant(board, from, to, lastMove) ==
  LET piece == getPieceAtPosition(board, from)
      fromRow == positionToIndices(from)[1]
      toCol == positionToIndices(to)[2]
      capturedPos == indicesToPosition(fromRow, toCol)
      b1 == setPieceAtPosition(board, from, null)
      b2 == setPieceAtPosition(b1, capturedPos, null)
  IN  IF piece = null THEN board ELSE setPieceAtPosition(b2, to, piece)

(* rules/promotion.js *)

validPromotionPieces == {"queen", "rook", "bishop", "knight"}

\* A parameter the caller left out.
undefined == "undefined"

canPromote(position, piece) ==
  IF piece = null \/ piece.type # "pawn" THEN FALSE
  ELSE LET row == positionToIndices(position)[1]
       IN  (piece.color = "white" /\ row = 0) \/ (piece.color = "black" /\ row = 7)

isPromotionMove(from, to, piece) ==
  IF piece = null \/ piece.type # "pawn" THEN FALSE
  ELSE LET toRow == positionToIndices(to)[1]
       IN  (piece.color = "white" /\ toRow = 0) \/ (piece.color = "black" /\ toRow = 7)

\* {type, color, ...(type === 'rook' && {hasMoved: true})}
promotedPiece(type, color) ==
  IF type = "rook"
  THEN [type |-> type, color |-> color, hasMoved |-> TRUE]
  ELSE [type |-> type, color |-> color]

applyPromotion(board, position, promotionPieceArg) ==
  LET promotionPiece == IF promotionPieceArg = undefined THEN "queen" ELSE promotionPieceArg
      piece == getPieceAtPosition(board, position)
      promotion == IF promotionPiece \in validPromotionPieces THEN promotionPiece ELSE "queen"
  IN  IF piece = null \/ piece.type # "pawn" THEN board
      ELSE setPieceAtPosition(board, position, promotedPiece(promotion, piece.color))

----------------------------------------------------------------------------
(* rules/index.js *)

applyMove(board, from, to, lastMove, promotionPieceArg) ==
  LET promotionPiece == IF promotionPieceArg = undefined THEN "queen" ELSE promotionPieceArg
      piece == getPieceAtPosition(board, from)
      capturedPiece == getPieceAtPosition(board, to)
      moveInfo == [from |-> from, to |-> to, piece |-> piece, capturedPiece |-> capturedPiece,
                   isCheck |-> FALSE, isCheckmate |-> FALSE, isPromotion |-> FALSE,
                   isCastling |-> FALSE, isEnPassant |-> FALSE, drawType |-> null]
      castlingInfo == isCastlingMove(from, to, piece)
      cleared == setPieceAtPosition(board, from, null)
  IN  IF piece = null THEN [board |-> board]
      ELSE IF castlingInfo # null
      THEN [board |-> applyCastling(board, from, castlingInfo.direction),
            moveInfo |-> [castlingDirection |-> castlingInfo.direction]
                         @@ [moveInfo EXCEPT !.isCastling = TRUE]]
      ELSE IF isEnPassantMove(board, from, to, lastMove)
      THEN [board |-> applyEnPassant(board, from, to, lastMove),
            moveInfo |-> [moveInfo EXCEPT !.isEnPassant = TRUE]]
      ELSE IF isPromotionMove(from, to, piece)
      THEN [board |-> setPieceAtPosition(cleared, to, promotedPiece(promotionPiece, piece.color)),
            moveInfo |-> [promotionPiece |-> promotionPiece]
                         @@ [moveInfo EXCEPT !.isPromotion = TRUE]]
      ELSE [board |-> setPieceAtPosition(cleared, to, withHasMoved(piece)),
            moveInfo |-> moveInfo]

----------------------------------------------------------------------------
(* rules/draw.js *)

piecesOf(board, color) == {i \in DOMAIN board : board[i].piece # null /\ board[i].piece.color = color}

countType(board, color, type) == Cardinality({i \in piecesOf(board, color) : board[i].piece.type = type})

\* const [row, col] = cell.position.split(''): row is the file letter and col
\* the rank digit, whatever their names say.
bishopSquareColor(position) ==
  LET row == position[1]
      col == position[2]
      fileIndex == Num(col - 97)
      rankIndex == NumSub(Num(8), parseInt(row))
  IN  NumMod(NumAdd(fileIndex, rankIndex), 2)

\* bishopSquares[color][0]: the colour pushed for the first bishop in board order.
firstBishopSquare(board, color) ==
  LET bishops == {i \in piecesOf(board, color) : board[i].piece.type = "bishop"}
  IN  bishopSquareColor(board[CHOOSE i \in bishops : \A j \in bishops : i <= j].position)

hasInsufficientMaterial(board) ==
  LET whiteTotal == Cardinality(piecesOf(board, "white"))
      blackTotal == Cardinality(piecesOf(board, "black"))
      whiteBishops == countType(board, "white", "bishop")
      blackBishops == countType(board, "black", "bishop")
      whiteKnights == countType(board, "white", "knight")
      blackKnights == countType(board, "black", "knight")
  IN  IF whiteTotal = 1 /\ blackTotal = 1 THEN TRUE
      ELSE IF \/ (whiteTotal = 2 /\ whiteBishops = 1 /\ blackTotal = 1)
              \/ (blackTotal = 2 /\ blackBishops = 1 /\ whiteTotal = 1) THEN TRUE
      ELSE IF \/ (whiteTotal = 2 /\ whiteKnights = 1 /\ blackTotal = 1)
              \/ (blackTotal = 2 /\ blackKnights = 1 /\ whiteTotal = 1) THEN TRUE
      ELSE IF /\ whiteTotal = 2 /\ whiteBishops = 1
              /\ blackTotal = 2 /\ blackBishops = 1
              /\ StrictEquals(firstBishopSquare(board, "white"), firstBishopSquare(board, "black"))
           THEN TRUE
      ELSE FALSE

isStalemate(board, color, lastMove) == ~isInCheck(board, color) /\ ~hasLegalMoves(board, color, lastMove)

\* The moves at which the loop of countMovesWithoutProgress breaks: a pawn
\* moved or a piece was captured.
progressMoves(moveHistory) ==
  {i \in DOMAIN moveHistory :
     LET move == moveHistory[i]
     IN  (move.piece # null /\ move.piece.type = "pawn") \/ move.capturedPiece # null}

\* The loop runs from the last move backwards and counts until it breaks.
countMovesWithoutProgress(moveHistory) ==
  LET breaks == progressMoves(moveHistory)
  IN  IF breaks = {} THEN Len(moveHistory)
      ELSE Len(moveHistory) - (CHOOSE i \in breaks : \A j \in breaks : j <= i)

isFiftyMoveRule(moveHistory) == countMovesWithoutProgress(moveHistory) >= 100

\* The JSON.stringify key of one position record: every cell's position and
\* its piece cut down to type, color and hasMoved (an undefined hasMoved is
\* left out of the JSON text), then the en-passant target.
positionString(positionRecord) ==
  [board |-> [k \in DOMAIN positionRecord.board |->
                LET cell == positionRecord.board[k]
                IN  [position |-> cell.position,
                     piece |-> IF cell.piece = null THEN null
                               ELSE [f \in DOMAIN cell.piece \cap {"type", "color", "hasMoved"} |->
                                       cell.piece[f]]]],
   enPassantTarget |-> positionRecord.enPassantTarget]

isThreefoldRepetition(positionHistory) ==
  \E i \in DOMAIN positionHistory :
     Cardinality({j \in 1..i :
                    positionString(positionHistory[j]) = positionString(positionHistory[i])}) >= 3

(* rules/index.js *)

\* checkGameOutcome that looks at the material before it looks for legal moves.
checkGameOutcomeMaterialFirst(board, currentTurn, lastMove, moveHistory, positionHistory) ==
  LET inCheck == isInCheck(board, currentTurn)
      hasLegalMove == hasLegalMoves(board, currentTurn, lastMove)
  IN  IF hasInsufficientMaterial(board)
      THEN [winner |-> "draw", reason |-> "Insufficient material"]
      ELSE IF ~hasLegalMove
      THEN IF inCheck
           THEN [winner |-> opponent(currentTurn), reason |-> "Checkmate"]
           ELSE [winner |-> "draw", reason |-> "Stalemate"]
      ELSE IF Len(moveHistory) >= 100 /\ isFiftyMoveRule(moveHistory)
      THEN [winner |-> "draw", reason |-> "Fifty-move rule"]
      ELSE IF Len(positionHistory) >= 9 /\ isThreefoldRepetition(positionHistory)
      THEN [winner |-> "draw", reason |-> "Threefold repetition"]
      ELSE null

\* checkGameOutcome with the checkmated side named as the winner.
checkGameOutcomeMoverLoses(board, currentTurn, lastMove, moveHistory, positionHistory) ==
  LET inCheck == isInCheck(board, currentTurn)
      hasLegalMove == hasLegalMoves(board, currentTurn, lastMove)
  IN  IF ~hasLegalMove
      THEN IF inCheck
           THEN [winner |-> currentTurn, reason |-> "Checkmate"]
           ELSE [winner |-> "draw", reason |-> "Stalemate"]
      ELSE IF hasInsufficientMaterial(board)
      THEN [winner |-> "draw", reason |-> "Insufficient material"]
      ELSE IF Len(moveHistory) >= 100 /\ isFiftyMoveRule(moveHistory)
      THEN [winner |-> "draw", reason |-> "Fifty-move rule"]
      ELSE IF Len(positionHistory) >= 9 /\ isThreefoldRepetition(positionHistory)
      THEN [winner |-> "draw", reason |-> "Threefold repetition"]
      ELSE null

checkGameOutcome(board, currentTurn, lastMove, moveHistory, positionHistory) ==
  LET inCheck == isInCheck(board, currentTurn)
      hasLegalMove == hasLegalMoves(board, currentTurn, lastMove)
  IN  IF ~hasLegalMove
      THEN IF inCheck
           THEN [winner |-> opponent(currentTurn), reason |-> "Checkmate"]
           ELSE [winner |-> "draw", reason |-> "Stalemate"]
      ELSE IF hasInsufficientMaterial(board)
      THEN [winner |-> "draw", reason |-> "Insufficient material"]
      ELSE IF Len(moveHistory) >= 100 /\ isFiftyMoveRule(moveHistory)
      THEN [winner |-> "draw", reason |-> "Fifty-move rule"]
      ELSE IF Len(positionHistory) >= 9 /\ isThreefoldRepetition(positionHistory)
      THEN [winner |-> "draw", reason |-> "Threefold repetition"]
      ELSE null

----------------------------------------------------------------------------
(* services/GameService.js: the game document.  A player is modelled by   *)
(* its uid; timestamps, display names and the notation list are left out.  *)

\* JavaScript's null in a field whose other values are strings.
nullString == "null"

Users == {"u1", "u2"}

createGame(player1, player2) ==
  [gameType |-> "chess",
   status |-> "waiting",
   winner |-> nullString,
   winReason |-> nullString,
   whitePlayer |-> [uid |-> player1],
   blackPlayer |-> [uid |-> nullString],
   board |-> initialBoardSetup,
   currentTurn |-> "white",
   drawOfferBy |-> nullString,
   moves |-> <<>>,
   boardPositions |-> <<[board |-> initialBoardSetup, enPassantTarget |-> null]>>,
   lastMove |-> null]

\* Firestore's updateDoc: the named fields are replaced, the others kept.
updateDoc(doc, updates) ==
  [field \in DOMAIN doc |-> IF field \in DOMAIN updates THEN updates[field] ELSE doc[field]]

\* The updates joinGame writes (it throws unless the game it read is waiting).
joinGame(player) == [status |-> "active", blackPlayer |-> [uid |-> player]]

\* The updates makeChessMove writes, `doc` being the document it has read.
makeChessMove(doc, from, to, piece, newBoard, moveInfo) ==
  LET move == moveInfo
      newPosition == [board |-> newBoard,
                      enPassantTarget |-> IF piece.type = "pawn" /\ Abs(from[2] - to[2]) = 2
                                          THEN to ELSE null]
      nextTurn == opponent(doc.currentTurn)
  IN  [board |-> newBoard,
       currentTurn |-> nextTurn,
       lastMove |-> move,
       moves |-> Append(doc.moves, move),
       boardPositions |-> Append(doc.boardPositions, newPosition)]

completeGame(winner, reason) == [status |-> "completed", winner |-> winner, winReason |-> reason]

(* utils.js *)

isPlayerTurn(userId, doc) ==
  LET isWhitePlayer == doc.whitePlayer.uid = userId
      isBlackPlayer == doc.blackPlayer.uid = userId
  IN  \/ (isWhitePlayer /\ doc.currentTurn = "white")
      \/ (isBlackPlayer /\ doc.currentTurn = "black")

getPlayerColor(userId, doc) ==
  IF doc.whitePlayer.uid = userId THEN "white"
  ELSE IF doc.blackPlayer.uid = userId THEN "black"
  ELSE nullString

(* components/ChessBoard.js, rendered on the snapshot `doc` of the game *)

canPlay(userId, doc) == isPlayerTurn(userId, doc) /\ doc.status = "active"

\* handleSquareClick twice: the first click selects an own piece on `from`,
\* the second falls on one of its valid moves.
offered(userId, doc, from, to) ==
  LET piece == getPieceAtPosition(doc.board, from)
  IN  /\ canPlay(userId, doc)
      /\ piece # null
      /\ piece.color = getPlayerColor(userId, doc)
      /\ to \in calculateValidMoves(doc.board, from, piece, doc.lastMove)

\* The second click opens the promotion dialogue instead of moving.
promotionPending(doc, from, to) ==
  LET selectedPiece == getPieceAtPosition(doc.board, from)
  IN  selectedPiece.type = "pawn" /\ isPromotionMove(from, to, selectedPiece)

\* makeMove: the arguments it hands to onMove.
makeMove(doc, from, to, promotionPiece) ==
  LET piece == getPieceAtPosition(doc.board, from)
      applied == applyMove(doc.board, from, to, doc.lastMove, promotionPiece)
      newBoard == applied.board
      opponentColor == opponent(piece.color)
  IN  [from |-> from, to |-> to, piece |-> piece, newBoard |-> newBoard,
       moveInfo |-> [applied.moveInfo EXCEPT !.isCheck = isInCheck(newBoard, opponentColor)]]

(* pages/Game.js *)

\* handleMove's local `outcome`, computed on the snapshot's histories.
handleMoveOutcome(userId, doc, m) ==
  LET move == [playerId |-> userId] @@ m.moveInfo
      nextTurn == opponent(doc.currentTurn)
  IN  checkGameOutcome(m.newBoard, nextTurn, move, doc.moves, doc.boardPositions)

\* The promotion dialogue's choices (renderPromotionOptions).
pieceTypes == {"queen", "rook", "bishop", "knight"}

----------------------------------------------------------------------------
(* Play of one game, each browser seeing the stored document before it     *)
(* clicks.                                                                 *)

files == [a |-> 97, b |-> 98, c |-> 99, d |-> 100, e |-> 101, f |-> 102, g |-> 103, h |-> 104]

\* The position string of a file letter and a rank, "e" and 4 for "e4".
square(file, rank) == <<files[file], 48 + rank>>

MaxMoves == 13

Joiners == {"u2"}

\* The clicks tried: the white king walks to g5 behind its e-pawn while a
\* black rook comes round to a5 and the black d-pawn makes its double step.
Book ==
  { <<square("e", 2), square("e", 4)>>, <<square("e", 4), square("e", 5)>>,
    <<square("e", 1), square("e", 2)>>, <<square("e", 2), square("f", 3)>>,
    <<square("f", 3), square("f", 4)>>, <<square("f", 4), square("g", 5)>>,
    <<square("e", 5), square("d", 6)>>,
    <<square("h", 7), square("h", 5)>>, <<square("h", 8), square("h", 6)>>,
    <<square("h", 6), square("g", 6)>>, <<square("g", 6), square("a", 6)>>,
    <<square("a", 6), square("a", 5)>>, <<square("d", 7), square("d", 5)>> }

idle == [pc |-> "idle"]

\* The handleMove invocations that may be in flight at once.
Calls == {1, 2}

Init ==
  /\ game = createGame("u1", "u2")
  /\ outcome = null
  /\ sess = [snap |-> [userId \in Users |-> null], calls |-> [c \in Calls |-> idle]]
  /\ call = null
  /\ ret = null

JoinGame(player) ==
  /\ game.status = "waiting"
  /\ game' = updateDoc(game, joinGame(player))
  /\ UNCHANGED <<outcome, sess, call, ret>>

\* handleSquareClick, makeMove (or handlePromotion), handleMove,
\* makeChessMove and completeGame for one move.
PlayMove(userId, from, to, promotionPiece) ==
  /\ offered(userId, game, from, to)
  /\ IF promotionPending(game, from, to)
     THEN promotionPiece \in pieceTypes
     ELSE promotionPiece = nullString
  /\ LET m == makeMove(game, from, to, promotionPiece)
         result == handleMoveOutcome(userId, game, m)
         written == updateDoc(game, makeChessMove(game, m.from, m.to, m.piece,
                                                  m.newBoard, m.moveInfo))
     IN  /\ outcome' = result
         /\ game' = IF result # null
                    THEN updateDoc(written, completeGame(result.winner, result.reason))
                    ELSE written
  /\ UNCHANGED <<sess, call, ret>>

\* One move out of `book`, in a game of fewer than maxMoves moves so far.
Play(book, maxMoves) ==
  /\ Len(game.moves) < maxMoves
  /\ \E userId \in Users, click \in book, promotionPiece \in pieceTypes \cup {nullString} :
        PlayMove(userId, click[1], click[2], promotionPiece)

Join == \E player \in Joiners : JoinGame(player)

PlayBook == Play(Book, MaxMoves)

Next == Join \/ PlayBook

Spec == Init /\ [][Next]_vars

\* The side that made the last move.
mover == game.lastMove.piece.color

\* C1: every move offered to the player (a destination of calculatePieceMoves
\* that passes wouldMoveResultInCheck), once applied by applyMove with its
\* castling and en-passant side effects, leaves the mover's own king out of
\* check.
OfferedMoveKeepsOwnKingSafe ==
  game.lastMove # null => ~isInCheck(game.board, mover)

\* The en-passant destinations offered in the stored position: for a pawn
\* of the side to move, a destination on another file that is empty.
enPassantOffers ==
  {o \in [from : {game.board[i].position : i \in piecesOf(game.board, game.currentTurn)},
          to : {game.board[i].position : i \in DOMAIN game.board}] :
     LET piece == getPieceAtPosition(game.board, o.from)
     IN  /\ piece.type = "pawn"
         /\ o.to \in calculatePieceMoves(game.board, o.from, piece, game.lastMove, FALSE)
         /\ positionToIndices(o.to)[2] # positionToIndices(o.from)[2]
         /\ getPieceAtPosition(game.board, o.to) = null}

\* C11: an en-passant destination is offered to a pawn only when the pawn is
\* on its fifth rank and the move stored last in the history was a
\* two-square advance of an enemy pawn landing on the same rank one file
\* away, and the destination is the square one step ahead of the capturing
\* pawn in that enemy pawn's file; a double step further back in the history
\* gives no such offer.
EnPassantOnlyRightAfterDoubleStep ==
  \A o \in enPassantOffers :
     LET color == game.currentTurn
         from == positionToIndices(o.from)
         to == positionToIndices(o.to)
         direction == IF color = "white" THEN -1 ELSE 1
         last == game.moves[Len(game.moves)]
         lastFrom == positionToIndices(last.from)
         lastTo == positionToIndices(last.to)
     IN  /\ from[1] = (IF color = "white" THEN 3 ELSE 4)
         /\ game.moves # <<>>
         /\ last.piece.type = "pawn" /\ last.piece.color = opponent(color)
         /\ lastFrom[2] = lastTo[2]
         /\ lastTo[1] - lastFrom[1] = -2 * direction
         /\ lastTo[1] = from[1]
         /\ Abs(lastTo[2] - from[2]) = 1
         /\ to = <<from[1] + direction, lastTo[2]>>

\* An en-passant capture is on offer to the side to move.
EnPassantOffered == enPassantOffers # {}

\* The board the last move was made on.
boardBefore == game.boardPositions[Len(game.boardPositions) - 1].board

pieceCount(board) == Cardinality({i \in DOMAIN board : board[i].piece # null})

enPassantPlayed == game.lastMove # null /\ game.lastMove.isEnPassant

\* C12: an en-passant capture moves the capturing pawn to its destination
\* and removes the enemy pawn from the square on the capturing pawn's row of
\* origin in the destination's file: one piece fewer on the board, that
\* square empty, every other square as before.
EnPassantRemovesPassedPawn ==
  enPassantPlayed =>
    LET from == game.lastMove.from
        to == game.lastMove.to
        capturedPos == indicesToPosition(positionToIndices(from)[1], positionToIndices(to)[2])
        pawn == getPieceAtPosition(boardBefore, from)
        passed == getPieceAtPosition(boardBefore, capturedPos)
    IN  /\ passed # null /\ passed.type = "pawn" /\ passed.color = opponent(pawn.color)
        /\ pieceCount(game.board) = pieceCount(boardBefore) - 1
        /\ \A i \in DOMAIN game.board :
              LET position == boardBefore[i].position
              IN  /\ game.board[i].position = position
                  /\ game.board[i].piece =
                       (IF position = to THEN pawn
                        ELSE IF position \in {from, capturedPos} THEN null
                        ELSE boardBefore[i].piece)

\* The enemy pieces the last move took off the board.
removedByLastMove ==
  {i \in piecesOf(boardBefore, opponent(mover)) :
     game.board[i].piece = null \/ game.board[i].piece.color = mover}

\* C13: the move metadata names the captured piece for every move that
\* removes an enemy piece from the board, an en-passant capture included,
\* and names none for a move that removes none.
MoveInfoNamesCapturedPiece ==
  game.lastMove # null =>
    /\ \A i \in removedByLastMove : game.lastMove.capturedPiece = boardBefore[i].piece
    /\ removedByLastMove = {} => game.lastMove.capturedPiece = null

\* The piece types of a back rank, from file a to file h.
backRank == <<"rook", "knight", "bishop", "queen", "king", "bishop", "knight", "rook">>

newGame == game.moves = <<>>

\* C21: the board of a new game has exactly 32 pieces, 16 of each colour:
\* black pawns on row 1, white pawns on row 6, the standard back ranks on
\* rows 0 (black) and 7 (white), and every king and rook with has-moved false.
InitialBoardIsStandard ==
  newGame =>
    /\ pieceCount(game.board) = 32
    /\ \A color \in Colors : Cardinality(piecesOf(game.board, color)) = 16
    /\ \A row \in 0..7, col \in 0..7 :
          LET piece == getPieceAtPosition(game.board, square(<<"a", "b", "c", "d", "e", "f", "g", "h">>[col + 1], 8 - row))
          IN  CASE row = 1 -> piece = [type |-> "pawn", color |-> "black"]
                [] row = 6 -> piece = [type |-> "pawn", color |-> "white"]
                [] row \in {0, 7} ->
                     /\ piece # null
                     /\ piece.type = backRank[col + 1]
                     /\ piece.color = (IF row = 0 THEN "black" ELSE "white")
                     /\ piece.type \in {"king", "rook"} =>
                          ("hasMoved" \in DOMAIN piece /\ piece.hasMoved = FALSE)
                [] OTHER -> piece = null

\* A game has been created and nobody has joined it yet.
GameCreated == newGame /\ game.status = "waiting" /\ game.board = initialBoardSetup

\* What the side to move is offered on the stored board: the destinations of
\* each of its pieces that pass the self-check filter.
legalMoves ==
  {m \in [from : {game.board[i].position : i \in piecesOf(game.board, game.currentTurn)},
          to : {game.board[i].position : i \in DOMAIN game.board}] :
     m.to \in calculateValidMoves(game.board, m.from, getPieceAtPosition(game.board, m.from),
                                  game.lastMove)}

movesOfType(type) == {m \in legalMoves : getPieceAtPosition(game.board, m.from).type = type}

\* C22: from the initial position white has exactly 20 legal moves, 16 pawn
\* moves and 4 knight moves, and applying any one of them leaves 32 pieces on
\* the board.
TwentyMovesFromInitialPosition ==
  newGame =>
    /\ game.currentTurn = "white"
    /\ Cardinality(legalMoves) = 20
    /\ Cardinality(movesOfType("pawn")) = 16
    /\ Cardinality(movesOfType("knight")) = 4
    /\ \A m \in legalMoves :
          pieceCount(applyMove(game.board, m.from, m.to, game.lastMove, undefined).board) = 32

\* White is about to choose its first move.
FirstMoveOnOffer == newGame /\ game.status = "active" /\ legalMoves # {}

----------------------------------------------------------------------------
(* The same play, with the black rook going on along the fifth rank once   *)
(* the pawns have left it.                                                *)

MaxHuntMoves == 14

HuntBook == Book \cup {<<square("a", 5), square("g", 5)>>}

PlayHunt == Play(HuntBook, MaxHuntMoves)

NextHunt == Join \/ PlayHunt

SpecHunt == Init /\ [][NextHunt]_vars

\* C25: in every position reached from the initial board by moves offered to
\* the side to move (the pseudo-legal moves that pass wouldMoveResultInCheck)
\* and applied with applyMove, each colour has exactly one king: a king is
\* never captured.
KingNeverCaptured ==
  \A color \in Colors : countType(game.board, color, "king") = 1

----------------------------------------------------------------------------
(* Play in which the knights shuffle out and back.                         *)

MaxShuffleMoves == 8

ShuffleBook ==
  { <<square("g", 1), square("f", 3)>>, <<square("f", 3), square("g", 1)>>,
    <<square("b", 1), square("c", 3)>>, <<square("c", 3), square("b", 1)>>,
    <<square("g", 8), square("f", 6)>>, <<square("f", 6), square("g", 8)>>,
    <<square("b", 8), square("c", 6)>>, <<square("c", 6), square("b", 8)>> }

PlayShuffle == Play(ShuffleBook, MaxShuffleMoves)

NextShuffle == Join \/ PlayShuffle

SpecShuffle == Init /\ [][NextShuffle]_vars

\* A position as the rules of chess compare it: who stands where, whether
\* each rook and king has moved, and the en-passant target.
repetitionKey(positionRecord) ==
  [board |-> [k \in DOMAIN positionRecord.board |->
                LET piece == positionRecord.board[k].piece
                IN  IF piece = null THEN null
                    ELSE [type |-> piece.type, color |-> piece.color,
                          hasMoved |-> piece.type \in {"rook", "king"} /\ ~notHasMoved(piece)]],
   enPassantTarget |-> positionRecord.enPassantTarget]

\* How many times the position the last move produced stands in the stored
\* position history.
occurrences ==
  LET history == game.boardPositions
  IN  Cardinality({j \in DOMAIN history :
                     repetitionKey(history[j]) = repetitionKey(history[Len(history)])})

threefoldReported == outcome # null /\ outcome.reason = "Threefold repetition"

\* C4: the outcome evaluation run for a move returns draw by threefold
\* repetition exactly when that move produces the third occurrence of its
\* position, and not for any earlier move.
RepetitionReportedOnThirdOccurrence ==
  game.lastMove # null => (threefoldReported <=> occurrences >= 3)

----------------------------------------------------------------------------
(* Play in which White develops, castles and gives up a knight on h7      *)
(* while the black king's rook steps out, back and takes it.              *)

MaxDevelopMoves == 12

DevelopBook ==
  { <<square("g", 1), square("f", 3)>>, <<square("e", 2), square("e", 3)>>,
    <<square("f", 1), square("e", 2)>>, <<square("e", 1), square("g", 1)>>,
    <<square("f", 3), square("g", 5)>>, <<square("g", 5), square("h", 7)>>,
    <<square("f", 1), square("e", 1)>>,
    <<square("g", 8), square("f", 6)>>, <<square("h", 8), square("g", 8)>>,
    <<square("g", 8), square("h", 8)>>, <<square("h", 8), square("h", 7)>> }

PlayDevelop == Play(DevelopBook, MaxDevelopMoves)

NextDevelop == Join \/ PlayDevelop

SpecDevelop == Init /\ [][NextDevelop]_vars

\* C14: the has-moved flag is never reset: after any move of a game, a rook
\* or king that counts as not moved stood on the same square, not moved, on
\* the board before the move; every rook or king the move relocated
\* (ordinary move, capture or castling) is marked as moved.
HasMovedNeverReset ==
  game.lastMove # null =>
    \A i \in DOMAIN game.board :
       LET piece == game.board[i].piece
       IN  (piece # null /\ piece.type \in {"rook", "king"} /\ notHasMoved(piece)) =>
             boardBefore[i].piece = piece

\* A rook is back on its home square after moving, and the other side has castled.
RookBackHomeAfterCastling ==
  /\ game.lastMove # null
  /\ getPieceAtPosition(game.board, square("h", 8)) = [type |-> "rook", color |-> "black", hasMoved |-> TRUE]
  /\ getPieceAtPosition(game.board, square("g", 1)) = [type |-> "king", color |-> "white", hasMoved |-> TRUE]
  /\ getPieceAtPosition(game.board, square("f", 1)) = [type |-> "rook", color |-> "white", hasMoved |-> TRUE]

AllPositions == {indicesToPosition(row, col) : row \in 0..7, col \in 0..7}

exactlyOneEntryEach(board) ==
  /\ Len(board) = 64
  /\ \A position \in AllPositions :
        Cardinality({i \in DOMAIN board : board[i].position = position}) = 1

\* C15: the initial board and every board a sequence of moves produces has
\* exactly one entry for each of the 64 positions.
BoardHasOneEntryPerPosition ==
  /\ exactlyOneEntryEach(initialBoardSetup)
  /\ exactlyOneEntryEach(game.board)
  /\ \A k \in DOMAIN game.boardPositions : exactlyOneEntryEach(game.boardPositions[k].board)

\* A board after a capture and a castling.
BoardAfterCaptureAndCastling ==
  /\ game.lastMove # null
  /\ game.lastMove.capturedPiece # null
  /\ \E k \in DOMAIN game.moves : game.moves[k].isCastling

----------------------------------------------------------------------------
(* Play without a pawn move or a capture: a white knight goes round a     *)
(* circuit of eight squares and a black knight round one of ten, so that  *)
(* no position comes back before forty moves of each side.                *)

MaxQuietMoves == 101

whiteCircuit ==
  <<square("b", 1), square("c", 3), square("d", 5), square("b", 4), square("c", 6), square("d", 4), square("b", 5), square("a", 3)>>

blackCircuit ==
  <<square("g", 8), square("h", 6), square("g", 4), square("e", 5), square("g", 6), square("h", 4), square("f", 5), square("g", 3), square("h", 5), square("f", 6)>>

circuitMoves(circuit) ==
  {<<circuit[k], circuit[(k % Len(circuit)) + 1]>> : k \in DOMAIN circuit}

QuietBook == circuitMoves(whiteCircuit) \cup circuitMoves(blackCircuit)

PlayQuiet == Play(QuietBook, MaxQuietMoves)

NextQuiet == Join \/ PlayQuiet

SpecQuiet == Init /\ [][NextQuiet]_vars

fiftyMoveReported == outcome # null /\ outcome.reason = "Fifty-move rule"

\* The moves since the last pawn move or capture, the last move included.
quietMoves ==
  LET progress == {k \in DOMAIN game.moves :
                     game.moves[k].piece.type = "pawn" \/ game.moves[k].capturedPiece # null
                       \/ game.moves[k].isEnPassant}
  IN  Cardinality({k \in DOMAIN game.moves : \A j \in progress : j < k})

----------------------------------------------------------------------------
(* Play through the store: each browser clicks on the snapshot its         *)
(* listener last delivered, and handleMove runs up to each of its awaits.  *)

MaxStoreMoves == 4

StoreBook ==
  { <<square("f", 2), square("f", 3)>>, <<square("g", 2), square("g", 4)>>,
    <<square("e", 7), square("e", 5)>>, <<square("d", 8), square("h", 4)>> }

\* The calls that have a move still to write.
inFlight == {c \in Calls : sess.calls[c].pc \in {"getDoc", "updateDoc"}}

\* The onSnapshot listener of userId's browser delivers the stored document.
Snapshot(userId) ==
  /\ sess.snap[userId] # game
  /\ sess' = [sess EXCEPT !.snap[userId] = game]
  /\ UNCHANGED <<game, outcome, call, ret>>

\* handleSquareClick and makeMove on the snapshot, then handleMove up to
\* its call of makeChessMove.
Click(c, userId, from, to, promotionPiece) ==
  LET doc == sess.snap[userId]
  IN  /\ sess.calls[c].pc = "idle"
      /\ doc # null
      /\ offered(userId, doc, from, to)
      /\ IF promotionPending(doc, from, to)
         THEN promotionPiece \in pieceTypes
         ELSE promotionPiece = nullString
      /\ LET m == makeMove(doc, from, to, promotionPiece)
             result == handleMoveOutcome(userId, doc, m)
         IN  /\ outcome' = result
             /\ sess' = [sess EXCEPT !.calls[c] =
                           [pc |-> "getDoc", userId |-> userId, m |-> m, outcome |-> result]]
      /\ UNCHANGED <<game, call, ret>>

\* makeChessMove's getDoc and the checks on what it read; a throw ends
\* handleMove in its catch.
GetDoc(c) ==
  /\ sess.calls[c].pc = "getDoc"
  /\ sess' = [sess EXCEPT !.calls[c] =
                IF game.gameType # "chess" \/ game.status # "active"
                THEN idle
                ELSE [read |-> game] @@ [sess.calls[c] EXCEPT !.pc = "updateDoc"]]
  /\ UNCHANGED <<game, outcome, call, ret>>

\* makeChessMove's updateDoc; the writing browser's listener fires with the
\* local write.
UpdateDoc(c) ==
  LET this == sess.calls[c]
      m == this.m
      written == updateDoc(game, makeChessMove(this.read, m.from, m.to, m.piece,
                                               m.newBoard, m.moveInfo))
  IN  /\ this.pc = "updateDoc"
      /\ game' = written
      /\ sess' = [sess EXCEPT !.snap[this.userId] = written,
                              !.calls[c] = IF this.outcome # null
                                           THEN [pc |-> "completeGame", userId |-> this.userId,
                                                 outcome |-> this.outcome]
                                           ELSE idle]
      /\ UNCHANGED <<outcome, call, ret>>

\* handleMove's completeGame after a move with an outcome.
CompleteGame(c) ==
  LET this == sess.calls[c]
      written == updateDoc(game, completeGame(this.outcome.winner, this.outcome.reason))
  IN  /\ this.pc = "completeGame"
      /\ game' = written
      /\ sess' = [sess EXCEPT !.snap[this.userId] = written, !.calls[c] = idle]
      /\ UNCHANGED <<outcome, call, ret>>

Deliver == \E userId \in Users : Snapshot(userId)

\* The calls that may start: none once maxMoves moves are stored or on
\* their way.
free(maxMoves) ==
  IF Len(game.moves) + Cardinality(inFlight) < maxMoves THEN Calls ELSE {}

Submit ==
  \E c \in free(MaxStoreMoves), userId \in Users, click \in StoreBook,
     promotionPiece \in pieceTypes \cup {nullString} :
       Click(c, userId, click[1], click[2], promotionPiece)

Read == \E c \in Calls : GetDoc(c)

Write == \E c \in Calls : UpdateDoc(c)

Complete == \E c \in Calls : CompleteGame(c)

NextStore == Join \/ Deliver \/ Submit \/ Read \/ Write \/ Complete

SpecStore == Init /\ [][NextStore]_vars

\* C2: under any interleaving of makeChessMove calls, every committed write
\* is computed from the board and history stored at the moment of the write:
\* it appends its move to the stored history, so that no committed move is
\* lost or overwritten, and its board is the stored board with that move
\* applied.
CommittedMovesAreKept ==
  [][game'.moves # game.moves =>
       /\ game'.moves = Append(game.moves, game'.lastMove)
       /\ game'.board = applyMove(game.board, game'.lastMove.from, game'.lastMove.to,
                                  game.lastMove, nullString).board]_vars

\* `new` is `old` with one entry added at the end.
grewByOne(old, new) ==
  /\ Len(new) = Len(old) + 1
  /\ \A k \in DOMAIN old : new[k] = old[k]

historiesOnlyGrow ==
  \/ /\ game'.moves = game.moves
     /\ game'.boardPositions = game.boardPositions
     /\ game'.lastMove = game.lastMove
  \/ /\ grewByOne(game.moves, game'.moves)
     /\ grewByOne(game.boardPositions, game'.boardPositions)

\* C19: the stored move history and position history are both empty when
\* the game is created, each grows by exactly one entry per applied move,
\* and no operation removes, truncates or reorders the entries stored.
HistoriesStartEmptyAndOnlyGrow ==
  /\ game.moves = <<>>
  /\ game.boardPositions = <<>>
  /\ [][historiesOnlyGrow]_vars

\* The colour that makes move number k of a game.
colourOfMove(k) == IF k % 2 = 1 THEN "white" ELSE "black"

\* C26: every committed move is made by the colour that currentTurn names in
\* the store when the move is committed, and currentTurn flips exactly once
\* per committed move, so that the movers of the stored history alternate
\* from white on, whatever the interleaving of the clients.
TurnsAlternateInStore ==
  [][game'.lastMove # game.lastMove =>
       /\ game'.lastMove.piece.color = game.currentTurn
       /\ game'.currentTurn = opponent(game.currentTurn)
       /\ \A k \in DOMAIN game'.moves : game'.moves[k].piece.color = colourOfMove(k)]_vars

----------------------------------------------------------------------------
(* The outcome evaluator on end-game positions: two white pieces and one   *)
(* black piece in the corner of h8.                                        *)

RegionRows == 2

RegionCols == 3

Region == {indicesToPosition(row, col) : row \in 0..(RegionRows - 1), col \in (8 - RegionCols)..7}

emptyBoard == [i \in 1..64 |-> [position |-> initialBoardSetup[i].position, piece |-> null]]

\* A piece that has moved, as every piece of an end game has.
moved(type, color) == [type |-> type, color |-> color, hasMoved |-> TRUE]

cornerBoard(whiteKing, whiteType, whiteSquare, blackType, blackSquare) ==
  setPieceAtPosition(
    setPieceAtPosition(
      setPieceAtPosition(emptyBoard, whiteKing, moved("king", "white")),
      whiteSquare, moved(whiteType, "white")),
    blackSquare, moved(blackType, "black"))

bothKings(board) == findKingPosition(board, "white") # null /\ findKingPosition(board, "black") # null

\* Positions a game can be in when currentTurn is to move: the side that
\* has just moved is not in check (which also keeps the kings apart).
OutcomeCalls ==
  LET placings == { p \in [whiteKing : Region, whiteType : {"queen", "rook"}, whiteSquare : Region,
                           blackType : {"king", "rook"}, blackSquare : Region,
                           currentTurn : Colors] :
                      /\ p.whiteSquare # p.whiteKing
                      /\ p.blackSquare \notin {p.whiteKing, p.whiteSquare} }
      calls == { [fn |-> "checkGameOutcome",
                  board |-> cornerBoard(p.whiteKing, p.whiteType, p.whiteSquare,
                                        p.blackType, p.blackSquare),
                  currentTurn |-> p.currentTurn] : p \in placings }
  IN  { c \in calls : ~isInCheck(c.board, opponent(c.currentTurn)) }

InitOutcome ==
  /\ game = createGame("u1", "u2")
  /\ outcome = null
  /\ sess = [snap |-> [userId \in Users |-> null], calls |-> [c \in Calls |-> idle]]
  /\ call \in OutcomeCalls
  /\ ret = null

\* checkGameOutcome(board, currentTurn) with its defaults for the rest.
EvaluateOutcome ==
  /\ call.fn = "checkGameOutcome"
  /\ ret = null
  /\ ret' = [value |-> checkGameOutcome(call.board, call.currentTurn, null, <<>>, <<>>)]
  /\ UNCHANGED <<game, outcome, sess, call>>

NextOutcome == EvaluateOutcome

SpecOutcome == InitOutcome /\ [][NextOutcome]_vars

\* The side `color` has a move that, once applied, leaves its king out of check.
legalMoveExists(board, color, lastMove) ==
  \E i \in piecesOf(board, color) :
     \E to \in calculatePieceMoves(board, board[i].position, board[i].piece, lastMove, FALSE) :
        ~isInCheck(applyMove(board, board[i].position, to, lastMove, undefined).board, color)

evaluated == call.fn = "checkGameOutcome" /\ ret # null

kingAbsent == findKingPosition(call.board, call.currentTurn) = null

\* Every candidate move of the side to move is rejected by the legality filter.
allCandidatesRejected ==
  \A i \in piecesOf(call.board, call.currentTurn) :
     \A to \in calculatePieceMoves(call.board, call.board[i].position, call.board[i].piece,
                                   null, FALSE) :
        wouldMoveResultInCheck(call.board, call.board[i].position, to, call.currentTurn)

\* C8: when the king of the side to move is absent from the board, isInCheck
\* reports check for that side, every candidate move is rejected by
\* wouldMoveResultInCheck and checkGameOutcome returns a result.
AbsentKingTreatedAsCheck ==
  (evaluated /\ kingAbsent) =>
    /\ isInCheck(call.board, call.currentTurn)
    /\ allCandidatesRejected
    /\ ret.value # null

----------------------------------------------------------------------------
(* The material test on boards of the two kings and up to two more pieces. *)

MaterialCols == 4

MaterialSquares == {indicesToPosition(row, col) : row \in 3..4, col \in 0..(MaterialCols - 1)}

\* The pieces besides the kings: a set of at most two, on different squares.
Extras ==
  LET one == [type : {"bishop", "knight", "rook"}, color : Colors, square : MaterialSquares]
      two == {p \in one \X one : p[1].square # p[2].square}
  IN  {{}} \cup {{x} : x \in one} \cup {{p[1], p[2]} : p \in two}

RECURSIVE placeAll(_, _)
placeAll(board, extras) ==
  IF extras = {} THEN board
  ELSE LET x == CHOOSE x \in extras : TRUE
       IN  placeAll(setPieceAtPosition(board, x.square, moved(x.type, x.color)), extras \ {x})

materialBoard(extras) ==
  placeAll(setPieceAtPosition(setPieceAtPosition(emptyBoard, square("e", 1), moved("king", "white")),
                              square("e", 8), moved("king", "black")),
           extras)

InitMaterial ==
  /\ game = createGame("u1", "u2")
  /\ outcome = null
  /\ sess = [snap |-> [userId \in Users |-> null], calls |-> [c \in Calls |-> idle]]
  /\ call \in {[fn |-> "hasInsufficientMaterial", board |-> materialBoard(extras)] : extras \in Extras}
  /\ ret = null

EvaluateMaterial ==
  /\ call.fn = "hasInsufficientMaterial"
  /\ ret = null
  /\ ret' = [value |-> hasInsufficientMaterial(call.board)]
  /\ UNCHANGED <<game, outcome, sess, call>>

NextMaterial == EvaluateMaterial

SpecMaterial == InitMaterial /\ [][NextMaterial]_vars

\* The types of the pieces of `color` other than its king, as a sequence of
\* [type, position] in board order.
minorsOf(board, color) ==
  LET idx == {i \in piecesOf(board, color) : board[i].piece.type # "king"}
  IN  {[type |-> board[i].piece.type, position |-> board[i].position] : i \in idx}

\* (file index + rank index) mod 2 of a square.
squareColour(position) == (positionToIndices(position)[1] + positionToIndices(position)[2]) % 2

\* The material the claim lists as insufficient.
listedInsufficient(board) ==
  LET white == minorsOf(board, "white")
      black == minorsOf(board, "black")
      single(side) == Cardinality(side) = 1 /\ \A x \in side : x.type \in {"bishop", "knight"}
      bishop(side) == Cardinality(side) = 1 /\ \A x \in side : x.type = "bishop"
  IN  \/ white = {} /\ black = {}
      \/ single(white) /\ black = {}
      \/ single(black) /\ white = {}
      \/ /\ bishop(white) /\ bishop(black)
         /\ \A x \in white, y \in black : squareColour(x.position) = squareColour(y.position)

\* C5: hasInsufficientMaterial is true exactly for king against king, king
\* and a single bishop or knight against a lone king, and king and bishop
\* against king and bishop with both bishops on squares of the same colour.
InsufficientMaterialExactlyAsListed ==
  (call.fn = "hasInsufficientMaterial" /\ ret # null) =>
    (ret.value <=> listedInsufficient(call.board))

----------------------------------------------------------------------------
(* applyMove on a pawn one step from its final rank, and on the empty      *)
(* square behind it.                                                       *)

ApplyCols == 4

\* What a caller may pass as promotionPiece.
PromotionArgs == pieceTypes \cup {undefined, nullString, "king", "pawn"}

pawnBoard(color, col) ==
  setPieceAtPosition(
    setPieceAtPosition(
      setPieceAtPosition(emptyBoard, square("e", 1), moved("king", "white")),
      square("e", 8), moved("king", "black")),
    indicesToPosition(IF color = "white" THEN 1 ELSE 6, col), moved("pawn", color))

ApplyCalls ==
  { [fn |-> "applyMove",
     board |-> pawnBoard(p.color, p.col),
     from |-> indicesToPosition(IF p.color = "white" THEN 1 + p.behind ELSE 6 - p.behind, p.col),
     to |-> indicesToPosition(IF p.color = "white" THEN 0 ELSE 7, p.col),
     lastMove |-> null,
     promotionPiece |-> p.promotionPiece] :
       p \in [color : Colors, col : 0..(ApplyCols - 1), behind : {0, 1},
              promotionPiece : PromotionArgs] }

InitApply ==
  /\ game = createGame("u1", "u2")
  /\ outcome = null
  /\ sess = [snap |-> [userId \in Users |-> null], calls |-> [c \in Calls |-> idle]]
  /\ call \in ApplyCalls
  /\ ret = null

ApplyMove ==
  /\ call.fn = "applyMove"
  /\ ret = null
  /\ ret' = [value |-> applyMove(call.board, call.from, call.to, call.lastMove,
                                 call.promotionPiece)]
  /\ UNCHANGED <<game, outcome, sess, call>>

NextApply == ApplyMove

SpecApply == InitApply /\ [][NextApply]_vars

applied == call.fn = "applyMove" /\ ret # null

\* C6: when applyMove moves a pawn onto its final rank and the caller gives
\* no promotion choice or one outside queen, rook, bishop and knight, the
\* piece placed on the destination is a queen and never of another type.
PromotionFallsBackToQueen ==
  LET piece == getPieceAtPosition(call.board, call.from)
  IN  (/\ applied
       /\ piece # null /\ piece.type = "pawn"
       /\ positionToIndices(call.to)[1] = (IF piece.color = "white" THEN 0 ELSE 7)
       /\ call.promotionPiece \notin {"queen", "rook", "bishop", "knight"}) =>
        getPieceAtPosition(ret.value.board, call.to).type = "queen"

\* C7: applyMove called with a `from` square that holds no piece fails: it
\* signals the illegal move and returns no new board.
EmptyFromReturnsNoBoard ==
  (applied /\ getPieceAtPosition(call.board, call.from) = null) =>
    "board" \notin DOMAIN ret.value

----------------------------------------------------------------------------
(* The king generator and applyMove on castling positions: a king on its   *)
(* home square, what stands in the two corners, at most one piece between  *)
(* king and rooks, and at most one enemy rook on the far rank.             *)

homeRow(color) == IF color = "white" THEN 7 ELSE 0

\* What stands in a corner of the home row.
cornerPiece(kind, color) ==
  CASE kind = "rook" -> [type |-> "rook", color |-> color, hasMoved |-> FALSE]
    [] kind = "movedRook" -> moved("rook", color)
    [] kind = "enemyRook" -> moved("rook", opponent(color))
    [] kind = "knight" -> moved("knight", color)
    [] OTHER -> null

RECURSIVE placeOnRow(_, _, _, _)
placeOnRow(board, row, cols, piece) ==
  IF cols = {} THEN board
  ELSE LET c == CHOOSE c \in cols : TRUE
       IN  placeOnRow(setPieceAtPosition(board, indicesToPosition(row, c), piece),
                      row, cols \ {c}, piece)

castleBoard(p) ==
  LET home == homeRow(p.color)
      far == homeRow(opponent(p.color))
      king == [type |-> "king", color |-> p.color, hasMoved |-> p.kingMoved]
      b1 == setPieceAtPosition(emptyBoard, indicesToPosition(home, 4), king)
      b2 == setPieceAtPosition(b1, indicesToPosition(far, 0), moved("king", opponent(p.color)))
      b3 == setPieceAtPosition(b2, indicesToPosition(home, 7), cornerPiece(p.kingside, p.color))
      b4 == setPieceAtPosition(b3, indicesToPosition(home, 0), cornerPiece(p.queenside, p.color))
      b5 == placeOnRow(b4, home, p.blocker, moved("bishop", p.color))
  IN  placeOnRow(b5, far, p.attacker, moved("rook", opponent(p.color)))

CornerKinds == {"none", "rook", "movedRook", "enemyRook", "knight"}

CastleCalls ==
  { [fn |-> "calculateKingMoves", board |-> castleBoard(p), row |-> homeRow(p.color),
     col |-> 4, color |-> p.color] :
       p \in [color : Colors, kingMoved : BOOLEAN, kingside : CornerKinds,
              queenside : CornerKinds,
              blocker : {{}} \cup {{c} : c \in {1, 2, 3, 5, 6}},
              attacker : {{}} \cup {{c} : c \in 1..6}] }

InitCastle ==
  /\ game = createGame("u1", "u2")
  /\ outcome = null
  /\ sess = [snap |-> [userId \in Users |-> null], calls |-> [c \in Calls |-> idle]]
  /\ call \in CastleCalls
  /\ ret = null

KingMoves ==
  /\ call.fn = "calculateKingMoves"
  /\ ret = null
  /\ ret' = [value |-> calculateKingMoves(call.board, call.row, call.col, call.color, FALSE)]
  /\ UNCHANGED <<game, outcome, sess, call>>

\* The player picks an offered destination two files from the king and
\* applyMove applies it.
Castle ==
  /\ call.fn = "calculateKingMoves"
  /\ ret # null
  /\ \E to \in ret.value :
        /\ Abs(positionToIndices(to)[2] - call.col) = 2
        /\ call' = [fn |-> "applyMove", board |-> call.board,
                    from |-> indicesToPosition(call.row, call.col), to |-> to,
                    lastMove |-> null, promotionPiece |-> undefined]
        /\ ret' = [value |-> applyMove(call.board, indicesToPosition(call.row, call.col), to,
                                       null, undefined)]
  /\ UNCHANGED <<game, outcome, sess>>

NextCastle == KingMoves \/ Castle

SpecCastle == InitCastle /\ [][NextCastle]_vars

\* The conditions of castling towards the rook on column rookCol, read off
\* the board of the call.
mayCastle(rookCol) ==
  LET king == getPieceAtPosition(call.board, indicesToPosition(call.row, call.col))
      rook == getPieceAtPosition(call.board, indicesToPosition(call.row, rookCol))
      step == IF rookCol > call.col THEN 1 ELSE -1
      between == {c \in 0..7 : (c - call.col) * step > 0 /\ (rookCol - c) * step > 0}
      attacked(c) == isPositionUnderAttack(call.board, indicesToPosition(call.row, c),
                                           opponent(call.color))
  IN  /\ notHasMoved(king)
      /\ ~isInCheck(call.board, call.color)
      /\ rook # null /\ rook.type = "rook" /\ rook.color = call.color /\ notHasMoved(rook)
      /\ \A c \in between : getPieceAtPosition(call.board, indicesToPosition(call.row, c)) = null
      /\ ~attacked(call.col + step)
      /\ ~attacked(call.col + 2 * step)

generated == call.fn = "calculateKingMoves" /\ ret # null

\* C9: the king generator offers the destination two files towards a rook
\* if and only if the king has not moved and is not in check, the piece in
\* that corner of the king's row is an unmoved rook of the king's colour,
\* the squares strictly between them are empty, and neither the square the
\* king passes nor its destination is attacked by the opponent.
CastlingOfferedIffEligible ==
  generated =>
    /\ indicesToPosition(call.row, call.col + 2) \in ret.value <=> mayCastle(7)
    /\ indicesToPosition(call.row, call.col - 2) \in ret.value <=> mayCastle(0)

CastlingOffered ==
  /\ generated
  /\ indicesToPosition(call.row, call.col + 2) \in ret.value
  /\ indicesToPosition(call.row, call.col - 2) \in ret.value

castled == call.fn = "applyMove" /\ ret # null /\ ret.value.moveInfo.isCastling

\* C10: applying a castling move puts the king two squares towards the rook
\* and the rook on the square next to the king's new square on the side the
\* king came from, empties the squares both left, marks both pieces as
\* moved and leaves every other square as it was.
CastlingRelocatesKingAndRook ==
  castled =>
    LET fromCol == positionToIndices(call.from)[2]
        toCol == positionToIndices(call.to)[2]
        row == positionToIndices(call.from)[1]
        step == IF toCol > fromCol THEN 1 ELSE -1
        rookFrom == indicesToPosition(row, IF step = 1 THEN 7 ELSE 0)
        rookTo == indicesToPosition(row, toCol - step)
        king == getPieceAtPosition(call.board, call.from)
        rook == getPieceAtPosition(call.board, rookFrom)
    IN  /\ toCol = fromCol + 2 * step
        /\ \A i \in DOMAIN call.board :
              LET position == call.board[i].position
                  piece == ret.value.board[i].piece
              IN  /\ ret.value.board[i].position = position
                  /\ IF position = call.to
                     THEN piece = [type |-> "king", color |-> king.color, hasMoved |-> TRUE]
                     ELSE IF position = rookTo
                     THEN piece = [type |-> "rook", color |-> rook.color, hasMoved |-> TRUE]
                     ELSE IF position \in {call.from, rookFrom}
                     THEN piece = null
                     ELSE piece = call.board[i].piece

CastlingApplied == castled /\ ret.value.moveInfo.castlingDirection = "queenside"

----------------------------------------------------------------------------
(* Boards as JavaScript holds them: an array object whose elements are    *)
(* references to cell objects.  The heap records the arrays of cells and  *)
(* the cells the engine's board-writing operations create; an operation   *)
(* takes a heap and a reference and returns the heap it leaves behind.    *)

emptyHeap == [arrays |-> <<>>, cells |-> <<>>]

\* The board an array reference denotes.
deref(heap, ref) == [i \in DOMAIN heap.arrays[ref] |-> heap.cells[heap.arrays[ref][i]]]

\* board.push({position, piece}) for every square, on a fresh array.
allocBoard(heap, board) ==
  [heap |-> [arrays |-> Append(heap.arrays, [i \in DOMAIN board |-> Len(heap.cells) + i]),
             cells |-> heap.cells \o board],
   value |-> Len(heap.arrays) + 1]

\* [...board]: a fresh array holding the same cell references.
spreadArray(heap, ref) ==
  [heap |-> [heap EXCEPT !.arrays = Append(@, heap.arrays[ref])],
   value |-> Len(heap.arrays) + 1]

\* cell.piece = piece on the cells of the array itself.
setPieceAtPositionInPlace(heap, ref, position, piece) ==
  [heap |-> [heap EXCEPT !.cells =
               [c \in DOMAIN heap.cells |->
                  IF /\ \E i \in DOMAIN heap.arrays[ref] : heap.arrays[ref][i] = c
                     /\ heap.cells[c].position = position
                  THEN [heap.cells[c] EXCEPT !.piece = piece]
                  ELSE heap.cells[c]]],
   value |-> ref]

\* board.map(...): a fresh array; {...cell, piece} is a fresh cell, every
\* other element is the reference the old array holds.
setPieceAtPositionRef(heap, ref, position, piece) ==
  LET old == heap.arrays[ref]
      hit == {i \in DOMAIN old : heap.cells[old[i]].position = position}
      rank(i) == Cardinality({j \in hit : j <= i})
      fresh == [k \in 1..Cardinality(hit) |->
                  LET i == CHOOSE i \in hit : rank(i) = k
                  IN  [heap.cells[old[i]] EXCEPT !.piece = piece]]
  IN  [heap |-> [arrays |-> Append(heap.arrays,
                                   [i \in DOMAIN old |->
                                      IF i \in hit THEN Len(heap.cells) + rank(i) ELSE old[i]]),
                 cells |-> heap.cells \o fresh],
       value |-> Len(heap.arrays) + 1]

applyCastlingRef(heap, ref, kingPosition, direction) ==
  LET board == deref(heap, ref)
      rc == positionToIndices(kingPosition)
      kingRow == rc[1]
      kingCol == rc[2]
      king == getPieceAtPosition(board, kingPosition)
      rookCol == IF direction = "kingside" THEN 7 ELSE 0
      rookPosition == indicesToPosition(kingRow, rookCol)
      rook == getPieceAtPosition(board, rookPosition)
      newKingCol == kingCol + (IF direction = "kingside" THEN 2 ELSE -2)
      newKingPosition == indicesToPosition(kingRow, newKingCol)
      newRookCol == IF direction = "kingside" THEN newKingCol - 1 ELSE newKingCol + 1
      newRookPosition == indicesToPosition(kingRow, newRookCol)
      r1 == setPieceAtPositionRef(heap, ref, kingPosition, null)
      r2 == setPieceAtPositionRef(r1.heap, r1.value, rookPosition, null)
      r3 == setPieceAtPositionRef(r2.heap, r2.value, newKingPosition, withHasMoved(king))
  IN  IF king = null THEN [heap |-> heap, value |-> ref]
      ELSE setPieceAtPositionRef(r3.heap, r3.value, newRookPosition, spreadWithHasMoved(rook))

applyEnPassantRef(heap, ref, from, to, lastMove) ==
  LET board == deref(heap, ref)
      piece == getPieceAtPosition(board, from)
      fromRow == positionToIndices(from)[1]
      toCol == positionToIndices(to)[2]
      capturedPos == indicesToPosition(fromRow, toCol)
      r1 == setPieceAtPositionRef(heap, ref, from, null)
      r2 == setPieceAtPositionRef(r1.heap, r1.value, capturedPos, null)
  IN  IF piece = null THEN [heap |-> heap, value |-> ref]
      ELSE setPieceAtPositionRef(r2.heap, r2.value, to, piece)

applyPromotionRef(heap, ref, position, promotionPieceArg) ==
  LET board == deref(heap, ref)
      promotionPiece == IF promotionPieceArg = undefined THEN "queen" ELSE promotionPieceArg
      piece == getPieceAtPosition(board, position)
      promotion == IF promotionPiece \in validPromotionPieces THEN promotionPiece ELSE "queen"
  IN  IF piece = null \/ piece.type # "pawn" THEN [heap |-> heap, value |-> ref]
      ELSE setPieceAtPositionRef(heap, ref, position, promotedPiece(promotion, piece.color))

\* The board reference of applyMove's result.
applyMoveRef(heap, ref, from, to, lastMove, promotionPieceArg) ==
  LET promotionPiece == IF promotionPieceArg = undefined THEN "queen" ELSE promotionPieceArg
      copy == spreadArray(heap, ref)
      newBoard == deref(copy.heap, copy.value)
      piece == getPieceAtPosition(newBoard, from)
      castlingInfo == isCastlingMove(from, to, piece)
      cleared == setPieceAtPositionRef(copy.heap, copy.value, from, null)
  IN  IF piece = null THEN copy
      ELSE IF castlingInfo # null
      THEN applyCastlingRef(copy.heap, copy.value, from, castlingInfo.direction)
      ELSE IF isEnPassantMove(newBoard, from, to, lastMove)
      THEN applyEnPassantRef(copy.heap, copy.value, from, to, lastMove)
      ELSE IF isPromotionMove(from, to, piece)
      THEN setPieceAtPositionRef(cleared.heap, cleared.value, to,
                                 promotedPiece(promotionPiece, piece.color))
      ELSE setPieceAtPositionRef(cleared.heap, cleared.value, to, withHasMoved(piece))

wouldMoveResultInCheckRef(heap, ref, from, to, color) ==
  LET tempBoard == spreadArray(heap, ref)
      piece == getPieceAtPosition(deref(tempBoard.heap, tempBoard.value), from)
      newBoard == setPieceAtPositionRef(tempBoard.heap, tempBoard.value, from, null)
      finalBoard == setPieceAtPositionRef(newBoard.heap, newBoard.value, to, withHasMoved(piece))
      kingPosition == findKingPosition(deref(finalBoard.heap, finalBoard.value), color)
  IN  IF piece = null THEN [heap |-> tempBoard.heap, value |-> TRUE]
      ELSE [heap |-> finalBoard.heap,
            value |-> IF kingPosition = null THEN TRUE
                      ELSE isPositionUnderAttack(deref(finalBoard.heap, finalBoard.value),
                                                 kingPosition, opponent(color))]

\* hasLegalMoves' inner loop: the candidates of one piece, until one is legal.
RECURSIVE tryMoves(_, _, _, _, _)
tryMoves(heap, ref, position, moves, color) ==
  IF moves = {} THEN [heap |-> heap, value |-> FALSE]
  ELSE LET move == CHOOSE m \in moves : TRUE
           r == wouldMoveResultInCheckRef(heap, ref, position, move, color)
       IN  IF ~r.value THEN [heap |-> r.heap, value |-> TRUE]
           ELSE tryMoves(r.heap, ref, position, moves \ {move}, color)

\* hasLegalMoves' outer loop: the pieces of the colour in board order.
RECURSIVE tryPieces(_, _, _, _, _)
tryPieces(heap, ref, i, color, lastMove) ==
  IF i > Len(heap.arrays[ref]) THEN [heap |-> heap, value |-> FALSE]
  ELSE LET cell == heap.cells[heap.arrays[ref][i]]
       IN  IF cell.piece = null \/ cell.piece.color # color
           THEN tryPieces(heap, ref, i + 1, color, lastMove)
           ELSE LET r == tryMoves(heap, ref, cell.position,
                                  calculatePieceMoves(deref(heap, ref), cell.position,
                                                      cell.piece, lastMove, FALSE),
                                  color)
                IN  IF r.value THEN r ELSE tryPieces(r.heap, ref, i + 1, color, lastMove)

hasLegalMovesRef(heap, ref, color, lastMove) == tryPieces(heap, ref, 1, color, lastMove)

(* Engine operations called on a board the caller keeps a reference to.   *)

\* White may castle short, take d5 en passant or promote on a8.
memoryBoard ==
  LET b1 == setPieceAtPosition(emptyBoard, square("e", 1), [type |-> "king", color |-> "white", hasMoved |-> FALSE])
      b2 == setPieceAtPosition(b1, square("h", 1), [type |-> "rook", color |-> "white", hasMoved |-> FALSE])
      b3 == setPieceAtPosition(b2, square("e", 8), moved("king", "black"))
      b4 == setPieceAtPosition(b3, square("e", 5), moved("pawn", "white"))
      b5 == setPieceAtPosition(b4, square("a", 7), moved("pawn", "white"))
  IN  setPieceAtPosition(b5, square("d", 5), moved("pawn", "black"))

\* Black to move has no legal move.
stalemateBoard == cornerBoard(square("b", 6), "queen", square("c", 7), "king", square("a", 8))

MemoryBoards == {initialBoardSetup, memoryBoard, stalemateBoard}

MemorySquares == {square("e", 1), square("g", 1), square("e", 5), square("d", 6),
                  square("a", 7), square("a", 8)}

MemoryOps == {"setPieceAtPosition", "applyMove", "applyCastling", "applyEnPassant",
              "applyPromotion", "wouldMoveResultInCheck", "hasLegalMoves"}

\* The double step d7-d5 that precedes memoryBoard.
memoryLastMove(board) ==
  IF board = memoryBoard
  THEN [from |-> square("d", 7), to |-> square("d", 5), piece |-> [type |-> "pawn", color |-> "black"],
        capturedPiece |-> null, isCheck |-> FALSE, isCheckmate |-> FALSE, isPromotion |-> FALSE,
        isCastling |-> FALSE, isEnPassant |-> FALSE, drawType |-> null]
  ELSE null

MemoryCalls ==
  { [fn |-> c.fn, board |-> c.board, from |-> c.from, to |-> c.to, color |-> c.color,
     lastMove |-> memoryLastMove(c.board),
     direction |-> IF c.to[1] > c.from[1] THEN "kingside" ELSE "queenside"] :
       c \in [fn : MemoryOps, board : MemoryBoards, from : MemorySquares, to : MemorySquares,
              color : Colors] }

InitMemory ==
  /\ game = createGame("u1", "u2")
  /\ outcome = null
  /\ sess = [snap |-> [userId \in Users |-> null], calls |-> [c \in Calls |-> idle]]
  /\ call \in MemoryCalls
  /\ ret = null

\* The heap in which the caller holds call.board as reference 1.
callerHeap == allocBoard(emptyHeap, call.board).heap

Returns(r) ==
  /\ ret = null
  /\ ret' = r
  /\ UNCHANGED <<game, outcome, sess, call>>

CallSetPieceAtPosition ==
  /\ call.fn = "setPieceAtPosition"
  /\ Returns(setPieceAtPositionRef(callerHeap, 1, call.from, moved("queen", call.color)))

CallApplyMove ==
  /\ call.fn = "applyMove"
  /\ Returns(applyMoveRef(callerHeap, 1, call.from, call.to, call.lastMove, undefined))

CallApplyCastling ==
  /\ call.fn = "applyCastling"
  /\ Returns(applyCastlingRef(callerHeap, 1, call.from, call.direction))

CallApplyEnPassant ==
  /\ call.fn = "applyEnPassant"
  /\ Returns(applyEnPassantRef(callerHeap, 1, call.from, call.to, call.lastMove))

CallApplyPromotion ==
  /\ call.fn = "applyPromotion"
  /\ Returns(applyPromotionRef(callerHeap, 1, call.from, undefined))

CallWouldMoveResultInCheck ==
  /\ call.fn = "wouldMoveResultInCheck"
  /\ Returns(wouldMoveResultInCheckRef(callerHeap, 1, call.from, call.to, call.color))

CallHasLegalMoves ==
  /\ call.fn = "hasLegalMoves"
  /\ Returns(hasLegalMovesRef(callerHeap, 1, call.color, call.lastMove))

NextMemory ==
  \/ CallSetPieceAtPosition
  \/ CallApplyMove
  \/ CallApplyCastling
  \/ CallApplyEnPassant
  \/ CallApplyPromotion
  \/ CallWouldMoveResultInCheck
  \/ CallHasLegalMoves

SpecMemory == InitMemory /\ [][NextMemory]_vars

\* What the operation returns when boards are values.
returnedValue ==
  CASE call.fn = "setPieceAtPosition" ->
         setPieceAtPosition(call.board, call.from, moved("queen", call.color))
    [] call.fn = "applyMove" ->
         applyMove(call.board, call.from, call.to, call.lastMove, undefined).board
    [] call.fn = "applyCastling" -> applyCastling(call.board, call.from, call.direction)
    [] call.fn = "applyEnPassant" -> applyEnPassant(call.board, call.from, call.to, call.lastMove)
    [] call.fn = "applyPromotion" -> applyPromotion(call.board, call.from, undefined)
    [] call.fn = "wouldMoveResultInCheck" ->
         wouldMoveResultInCheck(call.board, call.from, call.to, call.color)
    [] call.fn = "hasLegalMoves" -> hasLegalMoves(call.board, call.color, call.lastMove)

returnsBoard == call.fn \notin {"wouldMoveResultInCheck", "hasLegalMoves"}

\* C16: no engine operation mutates a board in place: after
\* setPieceAtPosition, applyMove, applyCastling, applyEnPassant,
\* applyPromotion, wouldMoveResultInCheck or hasLegalMoves has returned, the
\* array the caller passed holds the same cell objects and every one of them
\* holds the position and piece it held before the call; what the operation
\* returns is the result computed on the board's value.
BoardsNotMutatedInPlace ==
  ret # null =>
    /\ \A a \in DOMAIN callerHeap.arrays : ret.heap.arrays[a] = callerHeap.arrays[a]
    /\ \A c \in DOMAIN callerHeap.cells : ret.heap.cells[c] = callerHeap.cells[c]
    /\ deref(ret.heap, 1) = call.board
    /\ IF returnsBoard THEN deref(ret.heap, ret.value) = returnedValue
                       ELSE ret.value = returnedValue

\* An en-passant capture applied to the caller's board produced a different board.
CapturedOnFreshBoard ==
  /\ ret # null
  /\ call.fn = "applyMove"
  /\ call.board = memoryBoard
  /\ call.from = square("e", 5)
  /\ call.to = square("d", 6)
  /\ ret.value # 1
  /\ getPieceAtPosition(deref(ret.heap, ret.value), square("d", 5)) = null
  /\ getPieceAtPosition(deref(ret.heap, 1), square("d", 5)) # null

----------------------------------------------------------------------------
(* checkGameOutcome called with histories, on positions where several of  *)
(* its rules match.                                                       *)

\* Black is checkmated by the queen on b7.
mateBoard == cornerBoard(square("b", 6), "queen", square("b", 7), "king", square("a", 8))

\* King and bishop against king, Black without a legal move.
bishopStalemateBoard == cornerBoard(square("a", 6), "bishop", square("e", 5), "king", square("a", 8))

bareKingsBoard ==
  setPieceAtPosition(setPieceAtPosition(emptyBoard, square("e", 1), moved("king", "white")),
                     square("e", 8), moved("king", "black"))

OrderBoards == {stalemateBoard, mateBoard, bishopStalemateBoard, bareKingsBoard,
                initialBoardSetup, memoryBoard}

quietMove ==
  [from |-> square("g", 1), to |-> square("f", 3), piece |-> [type |-> "knight", color |-> "white"],
   capturedPiece |-> null, isCheck |-> FALSE, isCheckmate |-> FALSE, isPromotion |-> FALSE,
   isCastling |-> FALSE, isEnPassant |-> FALSE, drawType |-> null]

pawnMove ==
  [quietMove EXCEPT !.from = square("e", 2), !.to = square("e", 4),
                    !.piece = [type |-> "pawn", color |-> "white"]]

\* No move yet, a hundred quiet moves, and a hundred moves ending in a pawn move.
OrderMoveHistories ==
  {<<>>, [k \in 1..100 |-> quietMove], [k \in 1..100 |-> IF k = 100 THEN pawnMove ELSE quietMove]}

\* No position yet, nine positions of which the first comes three times,
\* and nine positions that all differ.
OrderPositionHistories ==
  {<<>>,
   [k \in 1..9 |-> [board |-> IF k % 4 = 1 THEN initialBoardSetup
                              ELSE setPieceAtPosition(emptyBoard, indicesToPosition(0, k - 1),
                                                      moved("king", "white")),
                    enPassantTarget |-> null]],
   [k \in 1..9 |-> [board |-> setPieceAtPosition(emptyBoard, indicesToPosition(k % 8, k \div 8),
                                                 moved("king", "white")),
                    enPassantTarget |-> null]]}

OrderCalls ==
  [fn : {"checkGameOutcome"}, board : OrderBoards, currentTurn : Colors,
   moveHistory : OrderMoveHistories, positionHistory : OrderPositionHistories]

InitOrder ==
  /\ game = createGame("u1", "u2")
  /\ outcome = null
  /\ sess = [snap |-> [userId \in Users |-> null], calls |-> [c \in Calls |-> idle]]
  /\ call \in OrderCalls
  /\ ret = null

\* checkGameOutcome(board, currentTurn, lastMove, moveHistory, positionHistory).
EvaluateOutcomeWithHistory ==
  /\ call.fn = "checkGameOutcome"
  /\ ret = null
  /\ ret' = [value |-> checkGameOutcome(call.board, call.currentTurn, null,
                                        call.moveHistory, call.positionHistory)]
  /\ UNCHANGED <<game, outcome, sess, call>>

NextOrder == EvaluateOutcomeWithHistory

SpecOrder == InitOrder /\ [][NextOrder]_vars

\* The rules that match the call, each taken by itself.
noLegalMove == ~legalMoveExists(call.board, call.currentTurn, null)

materialMatches == hasInsufficientMaterial(call.board)

fiftyMatches == countMovesWithoutProgress(call.moveHistory) >= 100

threefoldMatches == isThreefoldRepetition(call.positionHistory)

\* C18: checkGameOutcome applies its rules in a fixed order and the first
\* match wins: checkmate or stalemate, then insufficient material, then the
\* fifty-move rule, then threefold repetition, else null; a position without
\* a legal move is reported as checkmate or stalemate even when a later draw
\* rule matches as well.
FirstMatchingRuleWins ==
  ret # null =>
    ret.value =
      IF noLegalMove
      THEN IF isInCheck(call.board, call.currentTurn)
           THEN [winner |-> opponent(call.currentTurn), reason |-> "Checkmate"]
           ELSE [winner |-> "draw", reason |-> "Stalemate"]
      ELSE IF materialMatches THEN [winner |-> "draw", reason |-> "Insufficient material"]
      ELSE IF fiftyMatches THEN [winner |-> "draw", reason |-> "Fifty-move rule"]
      ELSE IF threefoldMatches THEN [winner |-> "draw", reason |-> "Threefold repetition"]
      ELSE null

\* Stalemate was returned for a position that every draw rule matches too.
StalemateBeforeDrawRules ==
  /\ ret # null
  /\ ret.value = [winner |-> "draw", reason |-> "Stalemate"]
  /\ materialMatches
  /\ fiftyMatches
  /\ threefoldMatches

----------------------------------------------------------------------------
(* The two coordinate conversions, each followed by the other.            *)

\* The labels a1..h8.
Labels == {square(file, rank) : file \in DOMAIN files, rank \in 1..8}

ConvertCalls ==
  [fn : {"indicesToPosition"}, row : 0..7, col : 0..7]
    \cup [fn : {"positionToIndices"}, position : Labels]

InitConvert ==
  /\ game = createGame("u1", "u2")
  /\ outcome = null
  /\ sess = [snap |-> [userId \in Users |-> null], calls |-> [c \in Calls |-> idle]]
  /\ call \in ConvertCalls
  /\ ret = null

\* positionToIndices(indicesToPosition(row, col))
IndicesToPosition ==
  /\ call.fn = "indicesToPosition"
  /\ ret = null
  /\ LET position == indicesToPosition(call.row, call.col)
     IN  ret' = [value |-> position, back |-> positionToIndices(position)]
  /\ UNCHANGED <<game, outcome, sess, call>>

\* indicesToPosition(...positionToIndices(position))
PositionToIndices ==
  /\ call.fn = "positionToIndices"
  /\ ret = null
  /\ LET indices == positionToIndices(call.position)
     IN  ret' = [value |-> indices, back |-> indicesToPosition(indices[1], indices[2])]
  /\ UNCHANGED <<game, outcome, sess, call>>

NextConvert == IndicesToPosition \/ PositionToIndices

SpecConvert == InitConvert /\ [][NextConvert]_vars

\* C20: the conversions round-trip for all 64 squares:
\* positionToIndices(indicesToPosition(r, c)) = [r, c] for r, c in 0..7 and
\* indicesToPosition(positionToIndices(p)) = p for every label p of a1..h8;
\* row 0 is rank 8, and column 0 is file a.
ConversionRoundTrips ==
  ret # null =>
    IF call.fn = "indicesToPosition"
    THEN /\ ret.back = <<call.row, call.col>>
         /\ ret.value \in Labels
         /\ call.row = 0 <=> ret.value[2] = 48 + 8
         /\ call.col = 0 <=> ret.value[1] = files.a
    ELSE /\ ret.back = call.position
         /\ ret.value \in (0..7) \X (0..7)
         /\ ret.value[1] = 0 <=> call.position[2] = 48 + 8
         /\ ret.value[2] = 0 <=> call.position[1] = files.a

\* Both directions have been through h1, the last row and the last column.
CornerConverted ==
  /\ ret # null
  /\ \/ call.fn = "indicesToPosition" /\ call.row = 7 /\ call.col = 7 /\ ret.value = square("h", 1)
     \/ call.fn = "positionToIndices" /\ call.position = square("a", 8) /\ ret.value = <<0, 0>>

----------------------------------------------------------------------------
(* A white rook, bishop or queen among at most two pawns, one of each      *)
(* colour.                                                                *)

SlideSquares == {square("d", 4), square("d", 6), square("f", 4), square("f", 6),
                 square("b", 2), square("d", 1), square("a", 1), square("h", 4)}

\* No square: the pawn is left off the board.
noSquare == <<0, 0>>

SlideCalls ==
  {c \in [fn : {"calculatePieceMoves"}, type : {"rook", "bishop", "queen"}, at : SlideSquares,
          friend : SlideSquares \cup {noSquare}, enemy : SlideSquares \cup {noSquare}] :
     /\ c.friend # c.at
     /\ c.enemy # c.at
     /\ c.friend = c.enemy => c.friend = noSquare}

slideBoard(c) ==
  setPieceAtPosition(
    setPieceAtPosition(
      setPieceAtPosition(emptyBoard, c.at, moved(c.type, "white")),
      c.friend, moved("pawn", "white")),
    c.enemy, moved("pawn", "black"))

InitSlide ==
  /\ game = createGame("u1", "u2")
  /\ outcome = null
  /\ sess = [snap |-> [userId \in Users |-> null], calls |-> [c \in Calls |-> idle]]
  /\ call \in SlideCalls
  /\ ret = null

\* calculatePieceMoves(board, position, piece) for the sliding piece.
PieceMoves ==
  /\ call.fn = "calculatePieceMoves"
  /\ ret = null
  /\ ret' = [value |-> calculatePieceMoves(slideBoard(call), call.at, moved(call.type, "white"),
                                           null, FALSE)]
  /\ UNCHANGED <<game, outcome, sess, call>>

NextSlide == PieceMoves

SpecSlide == InitSlide /\ [][NextSlide]_vars

straight == {<<0, 1>>, <<0, -1>>, <<1, 0>>, <<-1, 0>>}

diagonal == {<<1, 1>>, <<1, -1>>, <<-1, 1>>, <<-1, -1>>}

directionsOf(type) ==
  CASE type = "rook" -> straight
    [] type = "bishop" -> diagonal
    [] type = "queen" -> straight \cup diagonal

\* The square k steps from `at` in direction d, off the board or not.
stepsFrom(at, d, k) == <<at[1] + k * d[2], at[2] + k * d[1]>>

occupant(c, position) ==
  IF position = c.enemy THEN "black" ELSE IF position = c.friend THEN "white" ELSE "none"

\* Along each direction: the empty squares up to the first occupied square,
\* and that square if an enemy stands on it.
reachable(c) ==
  {position \in Labels :
     \E d \in directionsOf(c.type), k \in 1..7 :
        /\ position = stepsFrom(c.at, d, k)
        /\ \A j \in 1..(k - 1) : occupant(c, stepsFrom(c.at, d, j)) = "none"
        /\ occupant(c, position) # "white"}

\* C23: for rook, bishop and queen the destinations along each direction are
\* exactly the empty squares up to the first occupied square, plus that
\* square iff it holds an enemy piece, and nothing beyond it; a rook alone on
\* d4 has exactly 14 destinations.
SlidersStopAtFirstPiece ==
  ret # null =>
    /\ ret.value = reachable(call)
    /\ (call.type = "rook" /\ call.at = square("d", 4) /\ call.friend = noSquare
          /\ call.enemy = noSquare) => Cardinality(ret.value) = 14

\* A rook on d4 takes the pawn on d6 and stops short of its own pawn on f4.
RookBlockedBothWays ==
  /\ ret # null
  /\ call.type = "rook"
  /\ call.at = square("d", 4)
  /\ call.enemy = square("d", 6)
  /\ call.friend = square("f", 4)
  /\ ret.value = {square("d", 5), square("d", 6), square("e", 4), square("c", 4), square("b", 4),
                  square("a", 4), square("d", 3), square("d", 2), square("d", 1)}

----------------------------------------------------------------------------
(* A pawn with its three squares ahead empty or held by a pawn of either   *)
(* colour, asked for the squares it attacks.                              *)

PawnRows == {1, 3, 6}

PawnCols == {0, 3, 7}

Occupants == {"none", "friend", "enemy"}

PawnCalls ==
  [fn : {"calculatePawnMoves"}, color : Colors, row : PawnRows, col : PawnCols,
   front : Occupants, left : Occupants, right : Occupants, target : {"front"}]
    \cup
  [fn : {"isPositionUnderAttack"}, color : Colors, row : PawnRows, col : PawnCols,
   front : Occupants, left : Occupants, right : Occupants, target : {"front", "left", "right"}]

\* The square ahead of the pawn of call c, straight on (0) or to a side.
ahead(c, side) ==
  indicesToPosition(c.row + (IF c.color = "white" THEN -1 ELSE 1), c.col + side)

occupantPiece(c, held) ==
  CASE held = "none" -> null
    [] held = "friend" -> moved("pawn", c.color)
    [] held = "enemy" -> moved("pawn", opponent(c.color))

pawnAheadBoard(c) ==
  setPieceAtPosition(
    setPieceAtPosition(
      setPieceAtPosition(
        setPieceAtPosition(emptyBoard, indicesToPosition(c.row, c.col), moved("pawn", c.color)),
        ahead(c, 0), occupantPiece(c, c.front)),
      ahead(c, -1), occupantPiece(c, c.left)),
    ahead(c, 1), occupantPiece(c, c.right))

targetOf(c) == ahead(c, CASE c.target = "front" -> 0 [] c.target = "left" -> -1 [] c.target = "right" -> 1)

InitPawn ==
  /\ game = createGame("u1", "u2")
  /\ outcome = null
  /\ sess = [snap |-> [userId \in Users |-> null], calls |-> [c \in Calls |-> idle]]
  /\ call \in PawnCalls
  /\ ret = null

\* calculatePawnMoves(board, row, col, color, null, true)
PawnAttackMoves ==
  /\ call.fn = "calculatePawnMoves"
  /\ ret = null
  /\ ret' = [value |-> calculatePawnMoves(pawnAheadBoard(call), call.row, call.col, call.color,
                                          null, TRUE)]
  /\ UNCHANGED <<game, outcome, sess, call>>

\* isPositionUnderAttack(board, position, byColor), by the pawn's colour.
PositionUnderAttack ==
  /\ call.fn = "isPositionUnderAttack"
  /\ ret = null
  /\ ret' = [value |-> isPositionUnderAttack(pawnAheadBoard(call), targetOf(call), call.color)]
  /\ UNCHANGED <<game, outcome, sess, call>>

NextPawn == PawnAttackMoves \/ PositionUnderAttack

SpecPawn == InitPawn /\ [][NextPawn]_vars

\* The squares of the board one rank ahead of the pawn and one file aside.
forwardDiagonals(c) ==
  LET at == square(<<"a", "b", "c", "d", "e", "f", "g", "h">>[c.col + 1], 8 - c.row)
      rankAhead == at[2] + (IF c.color = "white" THEN 1 ELSE -1)
  IN  {position \in Labels : position[2] = rankAhead /\ Abs(position[1] - at[1]) = 1}

\* C24: in attack-only mode the pawn generator returns exactly the on-board
\* diagonal squares one step ahead of the pawn, whatever stands on them, and
\* never a forward step; isPositionUnderAttack never reports the square in
\* front of the pawn as attacked by it and always reports both forward
\* diagonals.
PawnAttacksDiagonalsOnly ==
  ret # null =>
    IF call.fn = "calculatePawnMoves"
    THEN ret.value = forwardDiagonals(call)
    ELSE ret.value <=> (call.target # "front" /\ targetOf(call) \in forwardDiagonals(call))

\* The square in front is empty and is not attacked, while a diagonal held by
\* a pawn of the same colour is.
OwnPawnOnDiagonalAttacked ==
  /\ ret # null
  /\ call.fn = "isPositionUnderAttack"
  /\ call.front = "none"
  /\ \/ call.target = "front" /\ ~ret.value
     \/ call.target = "left" /\ call.left = "friend" /\ ret.value

----------------------------------------------------------------------------
(* Resignation and draw by agreement through the store: the Game page's    *)
(* buttons are rendered on the snapshot its listener last delivered, each  *)
(* handler awaits addSystemMessage before its write, and the service       *)
(* functions write without reading.                                        *)

(* services/GameService.js: the updates each function writes *)

resignChessGame(resigningColor) ==
  [status |-> "completed", winner |-> opponent(resigningColor), winReason |-> "Resignation"]

offerDraw(offeringColor) == [drawOfferBy |-> offeringColor]

acceptDraw ==
  [status |-> "completed", winner |-> "draw", winReason |-> "Agreement", drawOfferBy |-> nullString]

declineDraw == [drawOfferBy |-> nullString]

(* pages/Game.js, rendered on the snapshot `doc` *)

isPlayer(userId, doc) == doc.whitePlayer.uid = userId \/ doc.blackPlayer.uid = userId

hasDrawOffer(userId, doc) ==
  /\ doc.drawOfferBy # nullString
  /\ \/ (doc.whitePlayer.uid = userId /\ doc.drawOfferBy = "black")
     \/ (doc.blackPlayer.uid = userId /\ doc.drawOfferBy = "white")

offeredDraw(userId, doc) ==
  /\ doc.drawOfferBy # nullString
  /\ \/ (doc.whitePlayer.uid = userId /\ doc.drawOfferBy = "white")
     \/ (doc.blackPlayer.uid = userId /\ doc.drawOfferBy = "black")

\* The game-actions block is rendered.
actionsShown(userId, doc) == doc # null /\ doc.status = "active" /\ isPlayer(userId, doc)

\* The colour the handlers take the user for.
handlerColor(userId, doc) == IF doc.whitePlayer.uid = userId THEN "white" ELSE "black"

\* The resign button and handleResign up to its call of resignChessGame.
HandleResign(c, userId) ==
  LET doc == sess.snap[userId]
  IN  /\ sess.calls[c].pc = "idle"
      /\ actionsShown(userId, doc)
      /\ ~offeredDraw(userId, doc)
      /\ sess' = [sess EXCEPT !.calls[c] =
                    [pc |-> "resignChessGame", userId |-> userId,
                     color |-> handlerColor(userId, doc)]]
      /\ UNCHANGED <<game, outcome, call, ret>>

\* The accept button or the enabled offer button, and handleDrawOffer up
\* to its call of acceptDraw or offerDraw.
HandleDrawOffer(c, userId) ==
  LET doc == sess.snap[userId]
      color == handlerColor(userId, doc)
  IN  /\ sess.calls[c].pc = "idle"
      /\ actionsShown(userId, doc)
      /\ hasDrawOffer(userId, doc) \/ ~offeredDraw(userId, doc)
      /\ sess' = [sess EXCEPT !.calls[c] =
                    IF doc.drawOfferBy = opponent(color)
                    THEN [pc |-> "acceptDraw", userId |-> userId, color |-> color]
                    ELSE [pc |-> "offerDraw", userId |-> userId, color |-> color]]
      /\ UNCHANGED <<game, outcome, call, ret>>

\* The decline button and handleDeclineDraw up to its call of declineDraw.
HandleDeclineDraw(c, userId) ==
  LET doc == sess.snap[userId]
  IN  /\ sess.calls[c].pc = "idle"
      /\ actionsShown(userId, doc)
      /\ hasDrawOffer(userId, doc)
      /\ sess' = [sess EXCEPT !.calls[c] =
                    [pc |-> "declineDraw", userId |-> userId,
                     color |-> handlerColor(userId, doc)]]
      /\ UNCHANGED <<game, outcome, call, ret>>

\* The session once call c has written `written`: the writing browser's
\* listener fires with the local write, and the handler returns.
afterWrite(c, written) ==
  [sess EXCEPT !.snap[sess.calls[c].userId] = written, !.calls[c] = idle]

\* handleResign's resignChessGame.
ResignChessGame(c) ==
  LET this == sess.calls[c]
      written == updateDoc(game, resignChessGame(this.color))
  IN  /\ this.pc = "resignChessGame"
      /\ game' = written
      /\ sess' = afterWrite(c, written)
      /\ UNCHANGED <<outcome, call, ret>>

\* handleDrawOffer's offerDraw.
OfferDraw(c) ==
  LET this == sess.calls[c]
      written == updateDoc(game, offerDraw(this.color))
  IN  /\ this.pc = "offerDraw"
      /\ game' = written
      /\ sess' = afterWrite(c, written)
      /\ UNCHANGED <<outcome, call, ret>>

\* handleDrawOffer's acceptDraw.
AcceptDraw(c) ==
  LET written == updateDoc(game, acceptDraw)
  IN  /\ sess.calls[c].pc = "acceptDraw"
      /\ game' = written
      /\ sess' = afterWrite(c, written)
      /\ UNCHANGED <<outcome, call, ret>>

\* handleDeclineDraw's declineDraw.
DeclineDraw(c) ==
  LET written == updateDoc(game, declineDraw)
  IN  /\ sess.calls[c].pc = "declineDraw"
      /\ game' = written
      /\ sess' = afterWrite(c, written)
      /\ UNCHANGED <<outcome, call, ret>>

PressResign == \E c \in Calls, userId \in Users : HandleResign(c, userId)

PressDraw == \E c \in Calls, userId \in Users : HandleDrawOffer(c, userId)

PressDecline == \E c \in Calls, userId \in Users : HandleDeclineDraw(c, userId)

Resign == \E c \in Calls : ResignChessGame(c)

Offer == \E c \in Calls : OfferDraw(c)

Accept == \E c \in Calls : AcceptDraw(c)

Decline == \E c \in Calls : DeclineDraw(c)

NextDraw ==
  \/ Join \/ Deliver
  \/ PressResign \/ PressDraw \/ PressDecline
  \/ Resign \/ Offer \/ Accept \/ Decline

SpecDraw == Init /\ [][NextDraw]_vars

\* C27: a completed game is terminal: once the stored status is
\* 'completed', no later operation changes the stored board, currentTurn,
\* move history, winner or winReason.
CompletedGameIsTerminal ==
  [][game.status = "completed" =>
       /\ game'.board = game.board
       /\ game'.currentTurn = game.currentTurn
       /\ game'.moves = game.moves
       /\ game'.winner = game.winner
       /\ game'.winReason = game.winReason]_vars

\* The call c completes the game as a draw by agreement in this step.
recordsAgreement(c) ==
  /\ sess.calls[c].pc = "acceptDraw"
  /\ sess'.calls[c].pc = "idle"
  /\ game.winReason # "Agreement"
  /\ game'.winReason = "Agreement"

\* C30: a draw by agreement is recorded only when, at the moment of the
\* write, the stored game has a pending draw offer made by the opponent of
\* the accepting user, who is a player of the game; nobody completes the
\* game as a draw by agreement after the offer was declined.
DrawAgreedOnlyOnPendingOffer ==
  [][\A c \in Calls :
       recordsAgreement(c) =>
         /\ game.drawOfferBy # nullString
         /\ isPlayer(sess.calls[c].userId, game)
         /\ game.drawOfferBy = opponent(getPlayerColor(sess.calls[c].userId, game))]_vars

----------------------------------------------------------------------------
(* joinGame through the store: its getDoc and its updateDoc are two        *)
(* requests, and other calls may run between them.                         *)

\* The users who try to join the game as black.
Seekers == {"u2", "u3"}

\* joinGame's getDoc and the check of the status it read; a throw ends the
\* call.
JoinGetDoc(c, player) ==
  /\ sess.calls[c].pc = "idle"
  /\ sess' = [sess EXCEPT !.calls[c] =
                IF game.status # "waiting"
                THEN idle
                ELSE [pc |-> "joinUpdateDoc", player |-> player]]
  /\ UNCHANGED <<game, outcome, call, ret>>

\* joinGame's updateDoc, of a chess game.
JoinUpdateDoc(c) ==
  LET this == sess.calls[c]
  IN  /\ this.pc = "joinUpdateDoc"
      /\ game' = updateDoc(game, joinGame(this.player))
      /\ sess' = [sess EXCEPT !.calls[c] = idle]
      /\ UNCHANGED <<outcome, call, ret>>

JoinRead == \E c \in Calls, player \in Seekers : JoinGetDoc(c, player)

JoinWrite == \E c \in Calls : JoinUpdateDoc(c)

NextJoin == JoinRead \/ JoinWrite \/ Deliver

SpecJoin == Init /\ [][NextJoin]_vars

\* The call c of joinGame succeeds in this step.
joins(c) == sess.calls[c].pc = "joinUpdateDoc" /\ sess'.calls[c].pc = "idle"

\* C29: joinGame succeeds only while the stored status is 'waiting', so
\* that of any two calls at most one succeeds, and the black player the
\* successful call recorded is never replaced afterwards.
JoinSucceedsOnlyWhileWaiting ==
  [][/\ \A c \in Calls : joins(c) => game.status = "waiting"
     /\ game.status # "waiting" => game'.blackPlayer = game.blackPlayer]_vars

----------------------------------------------------------------------------
(* The end of a game by checkmate through the store: after 1. f3 e5 the    *)
(* game goes on with 2. g4 Qh4#.                                           *)

MaxMateMoves == 5

\* The document after the move from `from` to `to`, made on `doc` and
\* written to it (PlayMove without an outcome).
played(doc, from, to) ==
  LET m == makeMove(doc, from, to, nullString)
  IN  updateDoc(doc, makeChessMove(doc, m.from, m.to, m.piece, m.newBoard, m.moveInfo))

\* The game after 1. f3 e5, as both browsers show it.
InitMate ==
  /\ game = played(played(updateDoc(createGame("u1", "u2"), joinGame("u2")),
                          square("f", 2), square("f", 3)),
                   square("e", 7), square("e", 5))
  /\ outcome = null
  /\ sess = [snap |-> [userId \in Users |-> game], calls |-> [c \in Calls |-> idle]]
  /\ call = null
  /\ ret = null

SubmitMate ==
  \E c \in free(MaxMateMoves), userId \in Users, click \in StoreBook,
     promotionPiece \in pieceTypes \cup {nullString} :
       Click(c, userId, click[1], click[2], promotionPiece)

NextMate == Deliver \/ SubmitMate \/ Read \/ Write \/ Complete

SpecMate == InitMate /\ [][NextMate]_vars

\* A move whose outcome evaluation is not null has been committed by call c,
\* whose completeGame is still to come.
outcomePending(c) == sess.calls[c].pc = "completeGame"

\* C28: after a move whose outcome evaluation is non-null has been
\* committed, no further move is committed to the game before its status
\* becomes 'completed', and when the status becomes 'completed' it does so
\* with that outcome's winner and reason.
NoMoveBetweenOutcomeAndCompletion ==
  [][\A c \in Calls :
       outcomePending(c) /\ game.status # "completed" =>
         /\ game'.moves = game.moves
         /\ game'.lastMove = game.lastMove
         /\ game'.status = "completed" =>
               /\ game'.winner = sess.calls[c].outcome.winner
               /\ game'.winReason = sess.calls[c].outcome.reason]_vars

====
